---- MODULE Spec2Model ----
(***************************************************************************)
(* gdansk: the resource handler of core.Amber.tool (fingerprinted render   *)
(* cache), the lifespan of core.Amber.__call__ (production and development *)
(* start/stop) and the worker _AsyncThreadRunner.                          *)
(*                                                                         *)
(* Disk model: every artifact file is [stat, kind, ver].  stat stands for   *)
(* (st_mtime_ns, st_size), 0 for an absent file; ver names the content and *)
(* kind says what reading or running that content gives.  A write gives a  *)
(* file a new content; it takes a fresh stat, or, when it keeps the size   *)
(* and falls into the same tick of the file system's clock, the stat the   *)
(* file had.                                                               *)
(***************************************************************************)
EXTENDS Integers, Sequences, FiniteSets, TLC

\* ---------------------------------------------------------------- bounds
MaxEvents == 3
NumPlugins == 2
MaxStarts == 2
MaxCalls == 4
MaxRegs == 3
MaxPasses == 2
MaxEdits == 3
MaxRuns == 2

Readers == 1..MaxEvents
Views == {"a"}
Files == {"client", "server", "css"}
None == <<>>

ClientKinds == {"js", "empty"}
ServerKinds == {"markup", "throws", "blank"}
CssKinds == {"css"}

KindsOf(f) ==
  IF f = "client" THEN ClientKinds ELSE IF f = "server" THEN ServerKinds ELSE CssKinds

Absent == [stat |-> 0, kind |-> "none", ver |-> 0]

VARIABLES
  cache_html,          \* Amber.cache_html
  ssr,                 \* effective ssr flag of each view's handler
  server_path,         \* server_path of each view's handler: None or the path
  disk,                \* disk[v][f]: the artifact files under Amber.output
  clock,               \* source of modification times; counts disk changes
  cached_fingerprint,  \* per view, None or <<client, server, css>>
  cached_html,         \* per view, None or the rendered text
  cache_lock,          \* per view, [holder, waiters] of the asyncio.Lock
  rd,                  \* per read request, the position and locals of the handler
  dev,                 \* the dev argument of Amber.__call__
  plugins,             \* Amber.plugins: the configured plugins are 1..plugins
  apps,                \* Amber._apps: the registered views
  lpc,                 \* position of the caller inside _lifespan (or of the runner's client)
  lerr,                \* the error the lifespan raised, "none" if none
  starts,              \* entries of _lifespan so far
  rThread,             \* _AsyncThreadRunner._thread: 0 (None) or a worker
  rLoop,               \* _AsyncThreadRunner._loop: 0 (None) or a worker's loop
  created,             \* worker threads created so far
  live,                \* the worker threads alive (their loops open)
  tasks,               \* the asyncio tasks of the worker loops, by <<start, index>>
  stop_event,          \* closure variable stop_event: 0 (None) or the start that made it
  bundle_task,         \* closure variable bundle_task: None or a task
  watcher_tasks,       \* closure variable watcher_tasks: the tasks of the list
  stopSet,             \* the stop events that are set
  calls,               \* the methods of the runner a client has called, in order
  raised,              \* whether that call raised
  amber_ssr,           \* Amber.ssr, the default of the ssr argument of tool()
  views_dir,           \* the files under Amber.views, each by its parts
  last_reg,            \* per bundle path, the effective ssr of its latest registration
  reg_calls,           \* calls of tool() so far
  reg_page,            \* the page argument of the latest call of tool()
  reg_err,             \* what the latest call of tool() raised, "none" if nothing
  decorator,           \* the decorator the latest call returned: None or <<uri>>
  mcp_tools,           \* calls of mcp.tool(...)(fn) so far
  mcp_resources,       \* the uris passed to mcp.resource(...), in order
  watch,               \* the frame of PostCSS.watch: position and locals
  css,                 \* the .css files under the output directory
  css_clock,           \* source of their modification times
  watch_stop,          \* the stop_event passed to PostCSS.watch is set
  watch_cancel,        \* the task running PostCSS.watch was cancelled
  js_runtime,          \* what the latest call of run() left in its runtime
  runs                 \* the calls of run() so far: program and outcome

cacheVars == <<cache_html, ssr, server_path, disk, clock, cached_fingerprint, cached_html,
               cache_lock, rd>>

lifeVars == <<dev, plugins, apps, lpc, lerr, starts, rThread, rLoop, created,
              live, tasks, stop_event, bundle_task, watcher_tasks, stopSet, calls, raised>>

regVars == <<amber_ssr, views_dir, last_reg, reg_calls, reg_page, reg_err, decorator, mcp_tools,
             mcp_resources>>

watchVars == <<watch, css, css_clock, watch_stop, watch_cancel>>

bridgeVars == <<js_runtime, runs>>

pluginVars == <<watchVars, bridgeVars>>

vars == <<cacheVars, lifeVars, regVars, pluginVars>>

\* ------------------------------------------------------------ Page paths
\* faulty variant: every view has a server path
ServerPathAlways(v) == <<"server">>

\* server_path is None when Page.server is empty; Page comes from the
\* extension module, so a view may have either, whatever its ssr flag.
ServerPath(v) == server_path[v]

\* Page.server as the specification describes the output layout: a view has
\* a server script only if SSR is requested for it.  (Page is defined in the
\* extension module gdansk._core.)
PageServer(s) == IF s THEN <<"server">> ELSE None

Exists(v, f) == disk[v][f].stat # 0

\* ------------------------------------------------------------ Amber.tool
\* A path is the sequence of its parts; an absolute path begins with "/".
\* Path(page), core.py:172: the parts of the path written as the segments raw;
\* pathlib drops the empty and the "." segments
RECURSIVE PathParts(_)
PathParts(raw) ==
  IF raw = <<>> THEN <<>>
  ELSE IF raw[1] \in {"", "."} THEN PathParts(Tail(raw))
  ELSE <<raw[1]>> \o PathParts(Tail(raw))

Name(page) == IF page = <<>> THEN "" ELSE page[Len(page)]

\* PurePath.suffix of the names that occur
Suffix(name) ==
  IF name \in {"page.tsx", "view.tsx"} THEN ".tsx"
  ELSE IF name = "page.jsx" THEN ".jsx"
  ELSE IF name = "page.ts" THEN ".ts"
  ELSE IF name = "c.d" THEN ".d"
  ELSE ""

PageNames == {"page.tsx", "page.jsx"}

Page(path, s) == [path |-> path, app |-> TRUE, ssr |-> s]

\* _normalize_page_input: the ValueError cases; else the path itself
NormalizePageInputRaises(page) ==
  \/ page # <<>> /\ page[1] = "/"
  \/ \E i \in 1..Len(page) : page[i] \in {"", ".", ".."}
  \/ page # <<>> /\ page[1] = "apps"

\* _resolve_page_candidates
ResolvePageCandidatesRaises(page) ==
  /\ Suffix(Name(page)) # ""
  /\ \/ Suffix(Name(page)) \notin {".tsx", ".jsx"}
     \/ Name(page) \notin PageNames

ResolvePageCandidates(page) ==
  IF Suffix(Name(page)) # ""
    THEN <<page>>
    ELSE <<Append(page, "page.tsx"), Append(page, "page.jsx")>>

\* _normalize_page_path_and_uri
PageMinParts == 2

NormalizePagePathAndUriRaises(page) ==
  \/ Len(page) < PageMinParts
  \/ page[1] = "apps"
  \/ Name(page) \notin PageNames

BundlePage(page) == <<"apps">> \o page

Uri(page) == <<"ui://">> \o SubSeq(page, 1, Len(page) - 1)

IsFile(path) == path \in views_dir

\* the loop over the candidates (core.py:286-291): the index of the first
\* candidate whose file exists, 0 if there is none
FirstCandidate(cands) ==
  IF IsFile(BundlePage(cands[1])) THEN 1
  ELSE IF Len(cands) > 1 /\ IsFile(BundlePage(cands[2])) THEN 2
  ELSE 0

\* the candidates the loop looks at: all up to the first that exists
Looked(cands) ==
  IF FirstCandidate(cands) = 0 THEN 1..Len(cands) ELSE 1..FirstCandidate(cands)

SsrArgs == {"none", "true", "false"}

\* core.py:303
EffectiveSsr(s) == IF s = "none" THEN amber_ssr ELSE s = "true"

\* faulty variant: nothing registered earlier is taken out
StalePagesNone(path) == {}

\* core.py:305
StalePages(path) == {registered \in apps : registered.path = path}

\* tool() raises e and returns no decorator
ToolRaises(e) ==
  /\ reg_err' = e
  /\ decorator' = None
  /\ UNCHANGED <<apps, last_reg>>

\* faulty variant: the Page is added before the file is looked for
ToolAddsFirst(page, s) ==
  LET cands == ResolvePageCandidates(page)
      i == FirstCandidate(cands)
      page_spec == Page(BundlePage(cands[1]), EffectiveSsr(s)) IN
  IF \E j \in Looked(cands) : NormalizePagePathAndUriRaises(cands[j])
    THEN ToolRaises("ValueError")
    ELSE /\ apps' = (apps \ StalePages(page_spec.path)) \cup {page_spec}
         /\ last_reg' = [q \in DOMAIN last_reg \cup {page_spec.path} |->
                           IF q = page_spec.path THEN page_spec.ssr ELSE last_reg[q]]
         /\ reg_err' = IF i = 0 THEN "FileNotFoundError" ELSE "none"
         /\ decorator' = IF i = 0 THEN None ELSE <<Uri(cands[i])>>

\* core.py:283-307: the candidates are validated and looked for in order,
\* and the first found is registered
ToolResolved(page, s) ==
  LET cands == ResolvePageCandidates(page)
      i == FirstCandidate(cands)
  IN
  IF \E j \in Looked(cands) : NormalizePagePathAndUriRaises(cands[j])
    THEN ToolRaises("ValueError")
    ELSE IF i = 0
      THEN ToolRaises("FileNotFoundError")
      ELSE LET page_spec == Page(BundlePage(cands[i]), EffectiveSsr(s)) IN
           /\ apps' = (apps \ StalePages(page_spec.path)) \cup {page_spec}
           /\ last_reg' = [q \in DOMAIN last_reg \cup {page_spec.path} |->
                             IF q = page_spec.path THEN page_spec.ssr
                                                   ELSE last_reg[q]]
           /\ reg_err' = "none"
           /\ decorator' = <<Uri(cands[i])>>

\* tool(raw, ssr=s) up to the return of the decorator
Tool(raw, s) ==
  LET page == PathParts(raw) IN
  /\ reg_calls < MaxRegs
  /\ reg_calls' = reg_calls + 1
  /\ reg_page' = raw
  /\ IF NormalizePageInputRaises(page) \/ ResolvePageCandidatesRaises(page)
       THEN ToolRaises("ValueError")
       ELSE ToolResolved(page, s)
  /\ UNCHANGED <<cacheVars, dev, plugins, lpc, lerr, starts, rThread, rLoop, created,
                 live, tasks, stop_event, bundle_task, watcher_tasks, stopSet, calls, raised,
                 amber_ssr, views_dir, mcp_tools, mcp_resources, pluginVars>>

\* core.py:380-421: the decorator tool() returned is applied to a function;
\* it registers the tool and the resource of the view with the MCP server
Decorator ==
  /\ decorator # None
  /\ mcp_tools' = mcp_tools + 1
  /\ mcp_resources' = Append(mcp_resources, decorator[1])
  /\ decorator' = None
  /\ UNCHANGED <<cacheVars, lifeVars, amber_ssr, views_dir, last_reg, reg_calls, reg_page,
                 reg_err, pluginVars>>

\* the members of a set, one after the other
RECURSIVE Listed(_)
Listed(S) ==
  IF S = {} THEN <<>>
  ELSE LET x == CHOOSE y \in S : TRUE IN <<x>> \o Listed(S \ {x})

\* the views of the handlers, as tool() registered them
RegisteredViews == {Page(<<"apps", v, "page.tsx">>, ssr[v]) : v \in Views}

\* the registry after those registrations, with the default Amber.ssr
Registered ==
  /\ amber_ssr = FALSE
  /\ views_dir = {p.path : p \in RegisteredViews}
  /\ last_reg = [p \in {q.path : q \in RegisteredViews} |->
                   (CHOOSE q \in RegisteredViews : q.path = p).ssr]
  /\ reg_calls = 0
  /\ reg_page = <<>>
  /\ reg_err = "none"
  /\ decorator = None
  /\ mcp_tools = Cardinality(RegisteredViews)
  /\ mcp_resources = Listed({Uri(<<v, "page.tsx">>) : v \in Views})

\* ----------------------------------------------------------- reader task
\* res, err, src: the outcome; servedFp: the fingerprint the returned text was
\* cached under; rendered: it entered _render_resource_html; runs: its calls of
\* the Value Bridge run(); w0, w1: the clock when it
\* began and ended; after: the reads that had ended when this one began;
\* bgFailed: a background task had failed when it began
IdleReader ==
  [pc |-> "idle", view |-> "a", phase |-> "fast", fp |-> <<0, 0, 0>>,
   js |-> 0, html |-> 0, css |-> 0, res |-> None, err |-> "none",
   src |-> "none", servedFp |-> None, rendered |-> FALSE, runs |-> 0,
   w0 |-> 0, w1 |-> 0, srv |-> "none", after |-> {}, bgFailed |-> FALSE]

\* the record of a read that has ended: its locals are gone; of a read served
\* from the cache, the fingerprint it computed and the path it took are kept
Ended(rec) ==
  [IdleReader EXCEPT !.pc = "done", !.view = rec.view, !.res = rec.res, !.err = rec.err,
                     !.src = rec.src, !.servedFp = rec.servedFp, !.runs = rec.runs,
                     !.rendered = rec.rendered,
                     !.w0 = rec.w0, !.w1 = clock,
                     !.after = rec.after, !.bgFailed = rec.bgFailed,
                     !.fp = IF rec.src = "cache" THEN rec.fp ELSE <<0, 0, 0>>,
                     !.phase = IF rec.src = "cache" THEN rec.phase ELSE "fast"]

\* faulty variant: the lock never makes a read wait
LockFreeAlways(v) == TRUE

\* faulty variant: one lock for all views
LockFreeShared(v) == \A u \in DOMAIN cache_lock : cache_lock[u].holder = 0

LockFree(v) == cache_lock[v].holder = 0

Released(v, r) ==
  IF cache_lock[v].holder = r
    THEN [cache_lock EXCEPT ![v].holder = 0]
    ELSE cache_lock

\* the handler leaves with the record done (pc = "done"); async with releases
Leave(r, done) ==
  /\ rd' = [rd EXCEPT ![r] = Ended(done)]
  /\ cache_lock' = Released(done.view, r)

\* faulty variant: an exception leaves the handler with the lock still held
RaiseHoldsLock(r, e) ==
  /\ rd' = [rd EXCEPT ![r] = Ended([rd[r] EXCEPT !.err = e])]
  /\ UNCHANGED <<cache_html, ssr, server_path, disk, clock, cached_fingerprint, cached_html,
                 cache_lock>>

\* core.py:409: an exception leaves the handler through async with
Raise(r, e) ==
  /\ Leave(r, [rd[r] EXCEPT !.err = e])
  /\ UNCHANGED <<cache_html, ssr, server_path, disk, clock, cached_fingerprint, cached_html>>

Goto(r, rec) ==
  /\ rd' = [rd EXCEPT ![r] = rec]
  /\ UNCHANGED <<cache_html, ssr, server_path, disk, clock, cached_fingerprint, cached_html,
                 cache_lock>>

\* core.py:403-404 and 411-412: return cached_html
ReturnCached(r, rec) ==
  LET v == rec.view IN
  /\ Leave(r, [rec EXCEPT !.res = cached_html[v], !.src = "cache",
                          !.servedFp = cached_fingerprint[v]])
  /\ UNCHANGED <<cache_html, ssr, server_path, disk, clock, cached_fingerprint, cached_html>>

\* entering _render_resource_html (core.py:407 and 414)
StartRender(r, rec) ==
  rd' = [rd EXCEPT ![r] = [rec EXCEPT !.pc = "r_client_exists", !.rendered = TRUE]]

\* faulty variant: the stored fingerprint is not compared
CacheHitAnyFingerprint(v, fp) == cached_html[v] # None

CacheHit(v, fp) == cached_fingerprint[v] = fp /\ cached_html[v] # None

\* faulty variant: cache_html is looked at for the cached text only
AfterFastFingerprintLocks(r, rec) ==
  LET v == rec.view IN
  IF cache_html /\ CacheHit(v, rec.fp)
    THEN ReturnCached(r, rec)
    ELSE /\ rd' = [rd EXCEPT ![r] = [rec EXCEPT !.pc = "fp_client_exists",
                                                !.phase = "locked"]]
         /\ cache_lock' = [cache_lock EXCEPT ![v].holder = r]
         /\ UNCHANGED <<cache_html, ssr, server_path, disk, clock, cached_fingerprint,
                        cached_html>>

\* core.py:403-409: what follows the fingerprint of the fast path
AfterFastFingerprint(r, rec) ==
  LET v == rec.view IN
  IF cache_html /\ CacheHit(v, rec.fp)
    THEN ReturnCached(r, rec)
    ELSE IF ~cache_html
      THEN /\ StartRender(r, [rec EXCEPT !.phase = "nocache"])
           /\ UNCHANGED <<cache_html, ssr, server_path, disk, clock, cached_fingerprint,
                          cached_html, cache_lock>>
      ELSE IF LockFree(v) /\ cache_lock[v].waiters = <<>>
        THEN /\ rd' = [rd EXCEPT ![r] = [rec EXCEPT !.pc = "fp_client_exists",
                                                    !.phase = "locked"]]
             /\ cache_lock' = [cache_lock EXCEPT ![v].holder = r]
             /\ UNCHANGED <<cache_html, ssr, server_path, disk, clock, cached_fingerprint,
                            cached_html>>
        ELSE /\ rd' = [rd EXCEPT ![r] = [rec EXCEPT !.pc = "lock"]]
             /\ cache_lock' = [cache_lock EXCEPT ![v].waiters = Append(@, r)]
             /\ UNCHANGED <<cache_html, ssr, server_path, disk, clock, cached_fingerprint,
                            cached_html>>

\* faulty variant: no second look at the cache under the lock
AfterLockedFingerprintNoRecheck(r, rec) ==
  /\ StartRender(r, rec)
  /\ UNCHANGED <<cache_html, ssr, server_path, disk, clock, cached_fingerprint,
                 cached_html, cache_lock>>

\* core.py:410-414: what follows the fingerprint computed under the lock
AfterLockedFingerprint(r, rec) ==
  LET v == rec.view IN
  IF CacheHit(v, rec.fp)
    THEN ReturnCached(r, rec)
    ELSE /\ StartRender(r, rec)
         /\ UNCHANGED <<cache_html, ssr, server_path, disk, clock, cached_fingerprint,
                        cached_html, cache_lock>>

AfterFingerprint(r, rec) ==
  IF rec.phase = "fast" THEN AfterFastFingerprint(r, rec) ELSE AfterLockedFingerprint(r, rec)

\* ------------------------------------------------ _compute_fingerprint
\* core.py:398: the r-th read request arrives, for view v
\* The reads begun and the changes of the disk so far.
Events == Cardinality({r \in Readers : rd[r].pc # "idle"}) + (clock - 1)

StartRead(r, v) ==
  /\ rd[r].pc = "idle"
  /\ Events < MaxEvents
  /\ \A q \in Readers : q < r => rd[q].pc # "idle"
  /\ rd' = [q \in Readers |->
             IF q = r
               THEN [IdleReader EXCEPT !.pc = "fp_client_exists", !.view = v, !.w0 = clock,
                                       !.after = {p \in Readers \ {r} : rd[p].pc = "done"},
                                       !.bgFailed = \E k \in DOMAIN tasks :
                                                      tasks[k].st = "failed"]
               ELSE rd[q]]
  /\ UNCHANGED <<cache_html, ssr, server_path, disk, clock, cached_fingerprint, cached_html,
                 cache_lock>>
  /\ UNCHANGED <<lifeVars, regVars, pluginVars>>

\* faulty variant: the client script is not looked for before its stat
FpClientExistsUnchecked(r) ==
  /\ rd[r].pc = "fp_client_exists"
  /\ Goto(r, [rd[r] EXCEPT !.pc = "fp_client_stat"])
  /\ UNCHANGED <<lifeVars, regVars, pluginVars>>

\* faulty variant: the handler sleeps until the client script is there
FpClientExistsWaits(r) ==
  /\ rd[r].pc = "fp_client_exists"
  /\ IF Exists(rd[r].view, "client")
       THEN Goto(r, [rd[r] EXCEPT !.pc = "fp_client_stat"])
       ELSE Goto(r, [rd[r] EXCEPT !.pc = "sleep"])
  /\ UNCHANGED <<lifeVars, regVars, pluginVars>>

\* core.py:320-323
FpClientExists(r) ==
  /\ rd[r].pc = "fp_client_exists"
  /\ IF Exists(rd[r].view, "client")
       THEN Goto(r, [rd[r] EXCEPT !.pc = "fp_client_stat"])
       ELSE Raise(r, "MissingArtifact")
  /\ UNCHANGED <<lifeVars, regVars, pluginVars>>

\* core.py:324-330: stat of the client, then the branch on server_path
FpClientStat(r) ==
  LET v == rd[r].view
      rec == [rd[r] EXCEPT !.fp[1] = disk[v]["client"].stat]
  IN
  /\ rd[r].pc = "fp_client_stat"
  /\ IF ~Exists(v, "client")
       THEN Raise(r, "OSError")
       ELSE IF ServerPath(v) = None
         THEN IF ssr[v]
                THEN Raise(r, "MissingArtifact")
                ELSE Goto(r, [rec EXCEPT !.fp[2] = 0, !.pc = "fp_css_exists"])
         ELSE Goto(r, [rec EXCEPT !.pc = "fp_server_exists"])
  /\ UNCHANGED <<lifeVars, regVars, pluginVars>>

\* core.py:332-337
FpServerExists(r) ==
  LET v == rd[r].view IN
  /\ rd[r].pc = "fp_server_exists"
  /\ IF Exists(v, "server")
       THEN Goto(r, [rd[r] EXCEPT !.pc = "fp_server_stat"])
       ELSE IF ssr[v]
         THEN Raise(r, "MissingArtifact")
         ELSE Goto(r, [rd[r] EXCEPT !.fp[2] = 0, !.pc = "fp_css_exists"])
  /\ UNCHANGED <<lifeVars, regVars, pluginVars>>

\* core.py:339-340
FpServerStat(r) ==
  LET v == rd[r].view IN
  /\ rd[r].pc = "fp_server_stat"
  /\ IF Exists(v, "server")
       THEN Goto(r, [rd[r] EXCEPT !.fp[2] = disk[v]["server"].stat, !.pc = "fp_css_exists"])
       ELSE Raise(r, "OSError")
  /\ UNCHANGED <<lifeVars, regVars, pluginVars>>

\* core.py:342, 345-352: css absent completes the fingerprint
FpCssExists(r) ==
  LET v == rd[r].view IN
  /\ rd[r].pc = "fp_css_exists"
  /\ IF Exists(v, "css")
       THEN Goto(r, [rd[r] EXCEPT !.pc = "fp_css_stat"])
       ELSE AfterFingerprint(r, [rd[r] EXCEPT !.fp[3] = 0])
  /\ UNCHANGED <<lifeVars, regVars, pluginVars>>

\* core.py:343-344, 348-352
FpCssStat(r) ==
  LET v == rd[r].view IN
  /\ rd[r].pc = "fp_css_stat"
  /\ IF Exists(v, "css")
       THEN AfterFingerprint(r, [rd[r] EXCEPT !.fp[3] = disk[v]["css"].stat])
       ELSE Raise(r, "OSError")
  /\ UNCHANGED <<lifeVars, regVars, pluginVars>>

\* core.py:409: a waiting reader gets the lock, first come first served
AcquireLock(r) ==
  LET v == rd[r].view IN
  /\ rd[r].pc = "lock"
  /\ LockFree(v)
  /\ cache_lock[v].waiters # <<>>
  /\ Head(cache_lock[v].waiters) = r
  /\ cache_lock' = [cache_lock EXCEPT ![v] = [holder |-> r, waiters |-> Tail(@.waiters)]]
  /\ rd' = [rd EXCEPT ![r] = [@ EXCEPT !.pc = "fp_client_exists", !.phase = "locked"]]
  /\ UNCHANGED <<cache_html, ssr, server_path, disk, clock, cached_fingerprint, cached_html>>
  /\ UNCHANGED <<lifeVars, regVars, pluginVars>>

\* ----------------------------------------------- _render_resource_html
\* faulty variant: the fingerprint is stored, the text is not
FinishRenderKeepsText(r, rec) ==
  LET v == rec.view
      rendered_html == <<rec.js, rec.html, rec.css>>
  IN
  /\ Leave(r, [rec EXCEPT !.res = rendered_html, !.src = "render"])
  /\ IF rec.phase = "locked"
       THEN cached_fingerprint' = [cached_fingerprint EXCEPT ![v] = rec.fp]
       ELSE UNCHANGED cached_fingerprint
  /\ UNCHANGED <<cache_html, ssr, server_path, disk, clock, cached_html>>

\* faulty variant: the text is stored, the fingerprint is not
FinishRenderKeepsFingerprint(r, rec) ==
  LET v == rec.view
      rendered_html == <<rec.js, rec.html, rec.css>>
  IN
  /\ Leave(r, [rec EXCEPT !.res = rendered_html, !.src = "render"])
  /\ IF rec.phase = "locked"
       THEN cached_html' = [cached_html EXCEPT ![v] = rendered_html]
       ELSE UNCHANGED cached_html
  /\ UNCHANGED <<cache_html, ssr, server_path, disk, clock, cached_fingerprint>>

\* core.py:372-378 then 407 or 415-417: the template is rendered and returned;
\* under the lock the fingerprint and the text are stored first
FinishRender(r, rec) ==
  LET v == rec.view
      rendered_html == <<rec.js, rec.html, rec.css>>
      done == [rec EXCEPT !.res = rendered_html, !.src = "render"]
  IN
  /\ Leave(r, done)
  /\ IF rec.phase = "locked"
       THEN /\ cached_fingerprint' = [cached_fingerprint EXCEPT ![v] = rec.fp]
            /\ cached_html' = [cached_html EXCEPT ![v] = rendered_html]
       ELSE UNCHANGED <<cached_fingerprint, cached_html>>
  /\ UNCHANGED <<cache_html, ssr, server_path, disk, clock>>

\* core.py:366-370: html is known, the check for missing SSR output
AfterHtml(r, rec) ==
  IF rec.html = 0 /\ ssr[rec.view]
    THEN Raise(r, "MissingArtifact")
    ELSE Goto(r, [rec EXCEPT !.pc = "r_css_exists"])

\* core.py:355 (exists)
RenderClientExists(r) ==
  /\ rd[r].pc = "r_client_exists"
  /\ IF Exists(rd[r].view, "client")
       THEN Goto(r, [rd[r] EXCEPT !.pc = "r_client_read"])
       ELSE Raise(r, "MissingArtifact")
  /\ UNCHANGED <<lifeVars, regVars, pluginVars>>

\* core.py:355 (read_text), 357-362
RenderClientRead(r) ==
  LET v == rd[r].view
      rec == [rd[r] EXCEPT !.js = disk[v]["client"].ver]
  IN
  /\ rd[r].pc = "r_client_read"
  /\ IF ~Exists(v, "client")
       THEN Raise(r, "OSError")
       ELSE IF disk[v]["client"].kind = "empty"
         THEN Raise(r, "MissingArtifact")
         ELSE IF ServerPath(v) = None
           THEN AfterHtml(r, [rec EXCEPT !.html = 0])
           ELSE Goto(r, [rec EXCEPT !.pc = "r_server_exists"])
  /\ UNCHANGED <<lifeVars, regVars, pluginVars>>

\* core.py:362 (exists), 364
RenderServerExists(r) ==
  /\ rd[r].pc = "r_server_exists"
  /\ IF Exists(rd[r].view, "server")
       THEN Goto(r, [rd[r] EXCEPT !.pc = "r_server_read"])
       ELSE AfterHtml(r, [rd[r] EXCEPT !.html = 0])
  /\ UNCHANGED <<lifeVars, regVars, pluginVars>>

\* core.py:363-364: the script is read and handed to run()
RenderServerRead(r) ==
  LET v == rd[r].view IN
  /\ rd[r].pc = "r_server_read"
  /\ IF ~Exists(v, "server")
       THEN Raise(r, "OSError")
       ELSE /\ rd' = [rd EXCEPT ![r] = [@ EXCEPT !.pc = "r_run", !.runs = @ + 1,
                                                 !.html = disk[v]["server"].ver,
                                                 !.srv = disk[v]["server"].kind]]
            /\ UNCHANGED <<cache_html, ssr, server_path, disk, clock, cached_fingerprint, cached_html,
                           cache_lock>>
  /\ UNCHANGED <<lifeVars, regVars, pluginVars>>

\* faulty variant: a raising script counts as a script without markup
RenderRunFallsBack(r) ==
  /\ rd[r].pc = "r_run"
  /\ IF rd[r].srv \in {"throws", "blank"}
       THEN AfterHtml(r, [rd[r] EXCEPT !.html = 0])
       ELSE AfterHtml(r, rd[r])
  /\ UNCHANGED <<lifeVars, regVars, pluginVars>>

\* core.py:364: run() returns the markup of the script that was read, or raises
RenderRun(r) ==
  /\ rd[r].pc = "r_run"
  /\ IF rd[r].srv = "throws"
       THEN Raise(r, "ExecutionError")
       ELSE IF rd[r].srv = "blank"
         THEN AfterHtml(r, [rd[r] EXCEPT !.html = 0])
         ELSE AfterHtml(r, rd[r])
  /\ UNCHANGED <<lifeVars, regVars, pluginVars>>

\* core.py:370 (exists)
RenderCssExists(r) ==
  /\ rd[r].pc = "r_css_exists"
  /\ IF Exists(rd[r].view, "css")
       THEN Goto(r, [rd[r] EXCEPT !.pc = "r_css_read"])
       ELSE FinishRender(r, [rd[r] EXCEPT !.css = 0])
  /\ UNCHANGED <<lifeVars, regVars, pluginVars>>

\* core.py:370 (read_text)
RenderCssRead(r) ==
  LET v == rd[r].view IN
  /\ rd[r].pc = "r_css_read"
  /\ IF Exists(v, "css")
       THEN FinishRender(r, [rd[r] EXCEPT !.css = disk[v]["css"].ver])
       ELSE Raise(r, "OSError")
  /\ UNCHANGED <<lifeVars, regVars, pluginVars>>

\* ------------------------------------------------------------ the disk
\* the bundler, a plugin or the user writes an artifact: a fresh stat
WriteArtifact(v, f, k) ==
  /\ Events < MaxEvents
  /\ f = "server" => ServerPath(v) # None
  /\ clock' = clock + 1
  /\ disk' = [disk EXCEPT ![v][f] = [stat |-> clock + 1, kind |-> k, ver |-> clock + 1]]
  /\ UNCHANGED <<cache_html, ssr, server_path, cached_fingerprint, cached_html, cache_lock, rd>>
  /\ UNCHANGED <<lifeVars, regVars, pluginVars>>

\* an artifact is overwritten with a content of the same size within the
\* tick of its modification time: st_mtime_ns and st_size stay as they were
RewriteArtifact(v, f, k) ==
  /\ Events < MaxEvents
  /\ Exists(v, f)
  /\ clock' = clock + 1
  /\ disk' = [disk EXCEPT ![v][f] = [stat |-> @.stat, kind |-> k, ver |-> clock + 1]]
  /\ UNCHANGED <<cache_html, ssr, server_path, cached_fingerprint, cached_html, cache_lock, rd>>
  /\ UNCHANGED <<lifeVars, regVars, pluginVars>>

RemoveArtifact(v, f) ==
  /\ Events < MaxEvents
  /\ Exists(v, f)
  /\ clock' = clock + 1
  /\ disk' = [disk EXCEPT ![v][f] = Absent]
  /\ UNCHANGED <<cache_html, ssr, server_path, cached_fingerprint, cached_html, cache_lock, rd>>
  /\ UNCHANGED <<lifeVars, regVars, pluginVars>>

\* ---------------------------------------------------------- PostCSS.watch
\* experimental/postcss.py.  The .css files under the output directory, in
\* the order sorted() gives them.  A file is [mtime, writes, text]: mtime
\* stands for st_mtime_ns, 0 for a file that is not there; writes counts the
\* times somebody other than the watch wrote it; text tells whether the file
\* holds what somebody wrote ("source") or what postcss made ("compiled").
CssOrder == <<"x.css", "y.css">>

CssFiles == {CssOrder[i] : i \in 1..Len(CssOrder)}

\* postcss.py:108-115, _collect_css_files: the files found, sorted
CollectCssFiles == SelectSeq(CssOrder, LAMBDA f : css[f].mtime # 0)

\* known_mtimes.pop(css_path, None); 0 stands for no entry
Pop(known, f) == [known EXCEPT ![f] = 0]

WatchOver == watch.pc \in {"returned", "failed", "cancelled"}

\* a step of the coroutine: it is not over and no cancellation is pending
WatchAt(pc) == watch.pc = pc /\ ~watch_cancel

WatchFrame(w) ==
  /\ watch' = w
  /\ UNCHANGED <<css, css_clock, watch_stop, watch_cancel, cacheVars, lifeVars, regVars,
                 bridgeVars>>

\* postcss.py:36, 117-131: _resolve_cli returns the cli or raises OSError
WatchResolveCli(found) ==
  /\ WatchAt("start")
  /\ WatchFrame(IF found THEN [watch EXCEPT !.pc = "loop"]
                         ELSE [watch EXCEPT !.pc = "failed", !.exc = "OSError"])

\* postcss.py:39-40: the test of the while and, when it lets the loop go on,
\* the scan of the output directory
WatchLoop ==
  /\ WatchAt("loop")
  /\ watch_stop \/ watch.passes < MaxPasses
  /\ WatchFrame(IF watch_stop
                  THEN [watch EXCEPT !.pc = "returned"]
                  ELSE [watch EXCEPT !.pc = "next", !.todo = CollectCssFiles,
                                     !.passes = @ + 1])

\* postcss.py:40: the for takes the next file of the scan
WatchNext ==
  /\ WatchAt("next")
  /\ WatchFrame(IF watch.todo = <<>>
                  THEN [watch EXCEPT !.pc = "prune", !.cur = ""]
                  ELSE [watch EXCEPT !.pc = "stat", !.cur = Head(watch.todo),
                                     !.todo = Tail(watch.todo)])

\* postcss.py:42-49: the stat of the file and the comparison with the
\* recorded modification time
WatchStat ==
  LET f == watch.cur IN
  /\ WatchAt("stat")
  /\ WatchFrame(IF css[f].mtime = 0
                  THEN [watch EXCEPT !.pc = "next", !.known = Pop(@, f)]
                  ELSE IF watch.known[f] = css[f].mtime
                    THEN [watch EXCEPT !.pc = "next", !.current_mtime = css[f].mtime]
                    ELSE [watch EXCEPT !.pc = "process", !.current_mtime = css[f].mtime,
                                       !.processed[f] = @ + 1])

\* postcss.py:52, 74-76 and 53-55: _process_css_file looks for the file
WatchProcessExists ==
  LET f == watch.cur IN
  /\ WatchAt("process")
  /\ WatchFrame(IF css[f].mtime = 0
                  THEN [watch EXCEPT !.pc = "next", !.known = Pop(@, f)]
                  ELSE [watch EXCEPT !.pc = "subprocess"])

\* faulty variant: a failure of the tool is passed over like a missing file
WatchSubprocessForgives(ok) ==
  /\ WatchAt("subprocess")
  /\ WatchFrame(IF ok THEN [watch EXCEPT !.pc = "write"]
                      ELSE [watch EXCEPT !.pc = "next", !.known = Pop(@, watch.cur)])

\* postcss.py:78-103: postcss-cli runs; a return code other than 0, or no
\* output file, raises PostCSSError, which nothing in watch catches
WatchSubprocess(ok) ==
  /\ WatchAt("subprocess")
  /\ WatchFrame(IF ok THEN [watch EXCEPT !.pc = "write"]
                      ELSE [watch EXCEPT !.pc = "failed", !.exc = "PostCSSError"])

\* postcss.py:105-106: the compiled text is written over the file
WatchWrite ==
  LET f == watch.cur IN
  /\ WatchAt("write")
  /\ css' = [css EXCEPT ![f].mtime = css_clock + 1, ![f].text = "compiled"]
  /\ css_clock' = css_clock + 1
  /\ watch' = [watch EXCEPT !.pc = "record"]
  /\ UNCHANGED <<watch_stop, watch_cancel, cacheVars, lifeVars, regVars, bridgeVars>>

\* faulty variant: the modification time read before the processing is kept
WatchRecordStale ==
  LET f == watch.cur IN
  /\ WatchAt("record")
  /\ WatchFrame([watch EXCEPT !.pc = "next", !.known[f] = watch.current_mtime])

\* postcss.py:57-60: the modification time after the processing is recorded
WatchRecord ==
  LET f == watch.cur IN
  /\ WatchAt("record")
  /\ WatchFrame(IF css[f].mtime = 0
                  THEN [watch EXCEPT !.pc = "next", !.known = Pop(@, f)]
                  ELSE [watch EXCEPT !.pc = "next", !.known[f] = css[f].mtime])

\* postcss.py:62-66: the entries of files that are gone are dropped
WatchPrune ==
  /\ WatchAt("prune")
  /\ WatchFrame([watch EXCEPT !.pc = "wait",
                              !.known = [f \in CssFiles |->
                                           IF css[f].mtime = 0 THEN 0 ELSE watch.known[f]]])

\* faulty variant: the wait sleeps the whole interval whatever the event
WatchWakeSleeps(timeout) ==
  /\ WatchAt("wait")
  /\ timeout
  /\ WatchFrame([watch EXCEPT !.pc = "loop",
                              !.timeouts = @ + (IF timeout /\ watch_stop THEN 1 ELSE 0)])

\* postcss.py:68-71: wait_for(stop_event.wait(), timeout) returns when the
\* event is set, at once if it is set already, and raises TimeoutError, which
\* is caught, when the interval is over before
WatchWake(timeout) ==
  /\ WatchAt("wait")
  /\ timeout = ~watch_stop
  /\ WatchFrame([watch EXCEPT !.pc = "loop",
                              !.timeouts = @ + (IF timeout /\ watch_stop THEN 1 ELSE 0)])

\* faulty variant: the cancellation is caught and the pass goes on
WatchCancelledSwallows ==
  /\ ~WatchOver
  /\ watch_cancel
  /\ watch_cancel' = FALSE
  /\ UNCHANGED <<watch, css, css_clock, watch_stop, cacheVars, lifeVars, regVars, bridgeVars>>

\* CancelledError is raised at the await the coroutine is at; no except
\* clause of watch catches it
WatchCancelled ==
  /\ ~WatchOver
  /\ watch_cancel
  /\ watch' = [watch EXCEPT !.pc = "cancelled"]
  /\ UNCHANGED <<css, css_clock, watch_stop, watch_cancel, cacheVars, lifeVars, regVars,
                 bridgeVars>>

\* the thread of the lifespan: stop_event.set() and task.cancel()
WatchSetStop ==
  /\ ~watch_stop
  /\ watch_stop' = TRUE
  /\ UNCHANGED <<watch, css, css_clock, watch_cancel, cacheVars, lifeVars, regVars, bridgeVars>>

WatchCancel ==
  /\ ~watch_cancel
  /\ ~WatchOver
  /\ watch_cancel' = TRUE
  /\ UNCHANGED <<watch, css, css_clock, watch_stop, cacheVars, lifeVars, regVars, bridgeVars>>

Edits == css["x.css"].writes + css["y.css"].writes

\* the bundler, or anybody, writes or removes a .css file
CssWrite(f) ==
  /\ Edits < MaxEdits
  /\ css' = [css EXCEPT ![f] = [mtime |-> css_clock + 1, writes |-> @.writes + 1,
                                 text |-> "source"]]
  /\ css_clock' = css_clock + 1
  /\ UNCHANGED <<watch, watch_stop, watch_cancel, cacheVars, lifeVars, regVars, bridgeVars>>

CssRemove(f) ==
  /\ css[f].mtime # 0
  /\ css' = [css EXCEPT ![f].mtime = 0, ![f].text = "none"]
  /\ UNCHANGED <<watch, css_clock, watch_stop, watch_cancel, cacheVars, lifeVars, regVars,
                 bridgeVars>>

\* no PostCSS plugin was given: there is no watch and no file of its own
NoWatch ==
  /\ watch = None
  /\ css = None
  /\ css_clock = 0
  /\ watch_stop = FALSE
  /\ watch_cancel = FALSE

\* the watch is about to start; no .css file is there yet
WatchNew ==
  /\ watch = [pc |-> "start", todo |-> <<>>, cur |-> "", current_mtime |-> 0,
              known |-> [f \in CssFiles |-> 0], passes |-> 0, timeouts |-> 0,
              processed |-> [f \in CssFiles |-> 0], exc |-> "none"]
  /\ css = [f \in CssFiles |-> [mtime |-> 0, writes |-> 0, text |-> "none"]]
  /\ css_clock = 1
  /\ watch_stop = FALSE
  /\ watch_cancel = FALSE

\* ------------------------------------------------------------ run()
\* gdansk._core.run, the Value Bridge of spec.md 4.4.  A script value is a
\* tuple whose first element is its type; a number is numerator and
\* denominator, so that 4/2 is the integral 2 and 3/2 is not integral.
JsNumbers == {<<"num", 3, 1>>, <<"num", 4, 2>>, <<"num", 3, 2>>}

JsScalars ==
  JsNumbers \cup
  {<<"bool", TRUE>>, <<"str", "x">>, <<"null">>, <<"undefined">>, <<"symbol">>,
   <<"bigint", 1>>, <<"promise">>, <<"nan">>, <<"inf">>, <<"ninf">>}

JsContainers ==
  {<<"array", <<>>>>, <<"object", <<>>>>,
   <<"array", << <<"num", 3, 1>>, <<"num", 3, 2>>, <<"null">> >> >>,
   <<"object", << <<"ok", <<"bool", TRUE>> >>,
                  <<"values", <<"array", << <<"num", 3, 1>>,
                                            <<"object", << <<"name", <<"str", "x">> >> >> >>,
                                            <<"null">> >> >> >> >> >>}

JsValues == JsScalars \cup JsContainers

RECURSIVE ConvertCoerces(_), Convert(_), ConvertElements(_), ConvertEntries(_)

\* faulty variant: undefined becomes None and NaN a float
ConvertCoerces(v) ==
  CASE v[1] = "undefined" -> <<"ok", <<"none">> >>
    [] v[1] = "nan" -> <<"ok", <<"float", 0, 0>> >>
    [] v[1] = "bool" -> <<"ok", v>>
    [] v[1] = "num" ->
         IF v[2] % v[3] = 0 THEN <<"ok", <<"int", v[2] \div v[3]>> >>
                            ELSE <<"ok", <<"float", v[2], v[3]>> >>
    [] v[1] = "str" -> <<"ok", v>>
    [] v[1] = "null" -> <<"ok", <<"none">> >>
    [] v[1] = "array" -> ConvertElements(v[2])
    [] v[1] = "object" -> ConvertEntries(v[2])
    [] OTHER -> <<"UnsupportedValueError">>

\* spec.md 4.4, conversion rules: the host value of a script value, or the
\* unsupported-value error
Convert(v) ==
  CASE v[1] = "bool" -> <<"ok", v>>
    [] v[1] = "num" ->
         IF v[2] % v[3] = 0 THEN <<"ok", <<"int", v[2] \div v[3]>> >>
                            ELSE <<"ok", <<"float", v[2], v[3]>> >>
    [] v[1] = "str" -> <<"ok", v>>
    [] v[1] = "null" -> <<"ok", <<"none">> >>
    [] v[1] = "array" -> ConvertElements(v[2])
    [] v[1] = "object" -> ConvertEntries(v[2])
    [] OTHER -> <<"UnsupportedValueError">>

\* the elements of an array, converted one by one
ConvertElements(vs) ==
  IF vs = <<>> THEN <<"ok", <<"list", <<>> >> >>
  ELSE LET h == Convert(Head(vs))
           t == ConvertElements(Tail(vs))
       IN IF h[1] # "ok" THEN h
          ELSE IF t[1] # "ok" THEN t
          ELSE <<"ok", <<"list", <<h[2]>> \o t[2][2]>> >>

\* the entries of a plain object: the keys stay, the values are converted
ConvertEntries(es) ==
  IF es = <<>> THEN <<"ok", <<"dict", <<>> >> >>
  ELSE LET h == Convert(Head(es)[2])
           t == ConvertEntries(Tail(es))
       IN IF h[1] # "ok" THEN h
          ELSE IF t[1] # "ok" THEN t
          ELSE <<"ok", <<"dict", << <<Head(es)[1], h[2]>> >> \o t[2][2]>> >>

\* The programs: an expression with a completion value; an assignment to a
\* global; a use of that global; a call of the capture side-channel followed
\* by an expression; a throw.
Programs ==
  {<<"expr", v>> : v \in JsValues} \cup
  {<<"assign">>, <<"use">>, <<"throw">>} \cup
  {<<"capture", "<div>ok</div>", v>> : v \in {<<"num", 4, 2>>, <<"undefined">>}}

\* the context a program starts in: no global, nothing captured
NewContext == [counter |-> None, ssr_html |-> None, thrown |-> None, completion |-> None]

\* faulty variant: the context of the call before is used again
RunContextKept == [js_runtime EXCEPT !.thrown = None, !.completion = None]

\* spec.md 4.4, "Executes in an isolated context per call", shape (a)
RunContext == NewContext

\* the context after the program has run in ctx
Execute(p, ctx) ==
  CASE p[1] = "expr" -> [ctx EXCEPT !.completion = <<p[2]>>]
    [] p[1] = "assign" -> [ctx EXCEPT !.counter = <<1>>, !.completion = << <<"num", 1, 1>> >>]
    [] p[1] = "use" ->
         IF ctx.counter = None
           THEN [ctx EXCEPT !.thrown = <<"ReferenceError">>]
           ELSE [ctx EXCEPT !.counter = <<ctx.counter[1] + 2>>,
                            !.completion = << <<"num", ctx.counter[1] + 2, 1>> >>]
    [] p[1] = "capture" -> [ctx EXCEPT !.ssr_html = <<p[2]>>, !.completion = <<p[3]>>]
    [] p[1] = "throw" -> [ctx EXCEPT !.thrown = <<"Error">>]

\* faulty variant: what was captured is not looked at
OutcomeIgnoresCapture(ctx) ==
  IF ctx.thrown # None THEN <<"ExecutionError", ctx.thrown[1]>>
  ELSE Convert(ctx.completion[1])

\* spec.md 4.4: an exception fails with ExecutionError; a captured string
\* wins over the completion value; otherwise the completion value is converted
Outcome(ctx) ==
  IF ctx.thrown # None THEN <<"ExecutionError", ctx.thrown[1]>>
  ELSE IF ctx.ssr_html # None THEN <<"ok", <<"str", ctx.ssr_html[1]>> >>
  ELSE Convert(ctx.completion[1])

\* one call of run(programText)
Run(p) ==
  LET ctx == Execute(p, RunContext) IN
  /\ Len(runs) < MaxRuns
  /\ js_runtime' = ctx
  /\ runs' = Append(runs, [program |-> p, outcome |-> Outcome(ctx)])
  /\ UNCHANGED <<watchVars, cacheVars, lifeVars, regVars>>

\* run() is not looked at
NoRuntime ==
  /\ js_runtime = None
  /\ runs = <<>>

\* run() was never called
RuntimeNew ==
  /\ js_runtime = NewContext
  /\ runs = <<>>

\* ------------------------------------------------- _AsyncThreadRunner
\* A worker is a thread together with the event loop it creates in _run; the
\* loop is closed when _run ends, so `live` is both the threads alive and the
\* loops open.  Worker w is the w-th thread created.
Key(g, i) == <<g, i>>

Finished(k) == tasks[k].st \in {"done", "failed", "cancelled"}

Pending(w) == {k \in DOMAIN tasks : tasks[k].loop = w /\ ~Finished(k)}

Task(kind, d, i, w, ev) ==
  [kind |-> kind, dev |-> d, idx |-> i, loop |-> w, st |-> "created", at |-> 0,
   cancelReq |-> FALSE, event |-> ev, awaited |-> FALSE, exc |-> None, log |-> <<>>,
   cb |-> 0, reported |-> 0]

Cancel(ks) ==
  [k \in DOMAIN tasks |->
     IF k \in ks /\ ~Finished(k) THEN [tasks[k] EXCEPT !.cancelReq = TRUE] ELSE tasks[k]]

\* cb of a task: 0 without a done callback, 1 while its done callback
\* (_log_background_task_error) has not run, 2 once it has run.
CallbackDue(k) == tasks[k].cb = 1

\* Nothing is left to run on the loop of worker w.
Quiet(w) == Pending(w) = {} /\ \A k \in DOMAIN tasks : tasks[k].loop = w => ~CallbackDue(k)

\* The tasks still on a loop: a finished task that nothing refers to any
\* more, with no callback left to run, is garbage and leaves the model.
Unfinished == [k \in {j \in DOMAIN tasks : ~Finished(j) \/ CallbackDue(j)} |-> tasks[k]]

Await(ts, ks) == [k \in DOMAIN ts |-> IF k \in ks THEN [ts[k] EXCEPT !.awaited = TRUE] ELSE ts[k]]

RunnerStartAlways ==
  /\ created' = created + 1
  /\ rThread' = created + 1
  /\ rLoop' = created + 1
  /\ live' = live \cup {created + 1}

RunnerStart ==
  IF rThread # 0 /\ rThread \in live
    THEN UNCHANGED <<rThread, rLoop, created, live>>
    ELSE /\ created' = created + 1
         /\ rThread' = created + 1
         /\ rLoop' = created + 1
         /\ live' = live \cup {created + 1}

RunnerStopUnguarded(joining, to) ==
  IF rLoop = 0 \/ rThread = 0
    THEN /\ raised' = TRUE
         /\ lpc' = to
         /\ UNCHANGED <<rThread, rLoop, live, tasks>>
    ELSE /\ raised' = FALSE
         /\ tasks' = Cancel(Pending(rLoop))
         /\ lpc' = joining
         /\ UNCHANGED <<rThread, rLoop, live>>

\* stop() up to the join: loop.stop() ends run_forever, and the finally of
\* _run cancels the tasks that are not done.
RunnerStop(joining, to) ==
  IF rLoop = 0 \/ rThread = 0
    THEN /\ raised' = FALSE
         /\ lpc' = to
         /\ UNCHANGED <<rThread, rLoop, live, tasks>>
    ELSE /\ raised' = FALSE
         /\ tasks' = Cancel(Pending(rLoop))
         /\ lpc' = joining
         /\ UNCHANGED <<rThread, rLoop, live>>

\* The join returns: the gather of _run is over, the loop is closed, the
\* thread has ended, and stop() clears both fields.
RunnerJoined(joining, to) ==
  /\ lpc = joining
  /\ Pending(rLoop) = {}
  /\ \A k \in DOMAIN tasks : tasks[k].loop = rLoop /\ tasks[k].cancelReq => ~CallbackDue(k)
  /\ tasks' = Await(tasks, {k \in DOMAIN tasks : tasks[k].loop = rLoop /\ tasks[k].cancelReq})
  /\ live' = live \ {rThread}
  /\ rLoop' = 0
  /\ rThread' = 0
  /\ lpc' = to

\* --------------------------------------------------- tasks on the worker
\* log of a task: the calls of bundle() and of the plugin hooks its coroutine
\* made, and how each ended.
Event(op, who, d, ph) == [op |-> op, who |-> who, dev |-> d, ph |-> ph]

Runnable(k) == k \in DOMAIN tasks /\ tasks[k].loop \in live /\ ~Finished(k)

\* The first step of _run_build_pipeline: bundle(...) is called and awaited.
PipelineStart(k) ==
  /\ Runnable(k)
  /\ tasks[k].kind = "pipeline"
  /\ tasks[k].st = "created"
  /\ ~tasks[k].cancelReq
  /\ tasks' = [tasks EXCEPT ![k].st = "bundle",
                            ![k].log = Append(@, Event("bundle", 0, tasks[k].dev, "call"))]
  /\ UNCHANGED <<pluginVars, regVars, cacheVars, dev, plugins, apps, lpc, lerr, starts, rThread, rLoop,
                 created, live, stop_event, bundle_task, watcher_tasks, stopSet, calls, raised>>

\* The awaited call (op, who) is over with ph, and plugin i's build is called.
CallBuild(k, op, who, ph, i) ==
  tasks' = [tasks EXCEPT ![k].st = "build", ![k].at = i,
                         ![k].log = Append(Append(@, Event(op, who, tasks[k].dev, ph)),
                                           Event("build", i, tasks[k].dev, "call"))]

Return(k, op, who, ph) ==
  tasks' = [tasks EXCEPT ![k].st = "done",
                         ![k].log = Append(@, Event(op, who, tasks[k].dev, ph))]

Throw(k, op, who) ==
  tasks' = [tasks EXCEPT ![k].st = "failed", ![k].exc = <<op, who>>,
                         ![k].log = Append(@, Event(op, who, tasks[k].dev, "raise"))]

AfterBundleAlwaysBuilds(k) ==
  IF plugins = 0 THEN Return(k, "bundle", 0, "ret")
                 ELSE CallBuild(k, "bundle", 0, "ret", 1)

\* "if dev: return", then the first plugin of the loop.
AfterBundle(k) ==
  IF tasks[k].dev \/ plugins = 0 THEN Return(k, "bundle", 0, "ret")
                                  ELSE CallBuild(k, "bundle", 0, "ret", 1)

\* faulty variant: a failed build empties the cache of every view
BundleReturnInvalidates(k, ok) ==
  /\ Runnable(k)
  /\ tasks[k].st = "bundle"
  /\ ~tasks[k].cancelReq
  /\ IF ok THEN AfterBundle(k) ELSE Throw(k, "bundle", 0)
  /\ cached_fingerprint' = IF ok THEN cached_fingerprint
                                 ELSE [v \in DOMAIN cached_fingerprint |-> None]
  /\ cached_html' = IF ok THEN cached_html ELSE [v \in DOMAIN cached_html |-> None]
  /\ UNCHANGED <<pluginVars, regVars, cache_html, ssr, server_path, disk, clock, cache_lock, rd,
                 dev, plugins, apps, lpc, lerr, starts, rThread, rLoop,
                 created, live, stop_event, bundle_task, watcher_tasks, stopSet, calls, raised>>

BundleReturn(k, ok) ==
  /\ Runnable(k)
  /\ tasks[k].st = "bundle"
  /\ ~tasks[k].cancelReq
  /\ IF ok THEN AfterBundle(k) ELSE Throw(k, "bundle", 0)
  /\ UNCHANGED <<pluginVars, regVars, cacheVars, dev, plugins, apps, lpc, lerr, starts, rThread, rLoop,
                 created, live, stop_event, bundle_task, watcher_tasks, stopSet, calls, raised>>

AfterBuildContinues(k, ok) ==
  LET ph == IF ok THEN "ret" ELSE "raise" IN
  IF tasks[k].at < plugins THEN CallBuild(k, "build", tasks[k].at, ph, tasks[k].at + 1)
                          ELSE Return(k, "build", tasks[k].at, ph)

\* The loop over self.plugins: a raising hook ends the pipeline.
AfterBuild(k, ok) ==
  IF ~ok THEN Throw(k, "build", tasks[k].at)
  ELSE IF tasks[k].at < plugins THEN CallBuild(k, "build", tasks[k].at, "ret", tasks[k].at + 1)
                                ELSE Return(k, "build", tasks[k].at, "ret")

PluginBuildReturn(k, ok) ==
  /\ Runnable(k)
  /\ tasks[k].st = "build"
  /\ ~tasks[k].cancelReq
  /\ AfterBuild(k, ok)
  /\ UNCHANGED <<pluginVars, regVars, cacheVars, dev, plugins, apps, lpc, lerr, starts, rThread, rLoop,
                 created, live, stop_event, bundle_task, watcher_tasks, stopSet, calls, raised>>

\* The first step of plugin.watch(...).
WatchStart(k) ==
  /\ Runnable(k)
  /\ tasks[k].kind = "watch"
  /\ tasks[k].st = "created"
  /\ ~tasks[k].cancelReq
  /\ tasks' = [tasks EXCEPT ![k].st = "watch",
                            ![k].log = Append(@, Event("watch", tasks[k].idx, TRUE, "call"))]
  /\ UNCHANGED <<pluginVars, regVars, cacheVars, dev, plugins, apps, lpc, lerr, starts, rThread, rLoop,
                 created, live, stop_event, bundle_task, watcher_tasks, stopSet, calls, raised>>

\* plugin.watch returns (it may, on its stop event or on its own, and it may
\* swallow a cancellation) or raises.
WatchEnd(k, ok) ==
  /\ Runnable(k)
  /\ tasks[k].st = "watch"
  /\ tasks' = [tasks EXCEPT ![k].st = IF ok THEN "done" ELSE "failed",
                            ![k].exc = IF ok THEN None ELSE <<"watch", tasks[k].idx>>]
  /\ UNCHANGED <<pluginVars, regVars, cacheVars, dev, plugins, apps, lpc, lerr, starts, rThread,
                 rLoop, created, live, stop_event, bundle_task, watcher_tasks, stopSet,
                 calls, raised>>

\* A task whose cancellation was requested gets CancelledError at its await.
Cancelled(k) ==
  /\ Runnable(k)
  /\ tasks[k].cancelReq
  /\ tasks' = [tasks EXCEPT ![k].st = "cancelled"]
  /\ UNCHANGED <<pluginVars, regVars, cacheVars, dev, plugins, apps, lpc, lerr, starts, rThread,
                 rLoop, created, live, stop_event, bundle_task, watcher_tasks, stopSet,
                 calls, raised>>

\* What _log_background_task_error hands to the logger for a task that is
\* over: nothing for a cancelled task, nothing for one without an exception,
\* else one logger.exception.
LogEveryTask(t) == 1

LogBackgroundTaskError(t) ==
  IF t.st = "cancelled" THEN 0
  ELSE IF t.exc = None THEN 0
  ELSE 1

\* The loop runs the done callback of a task that is over; it had scheduled
\* it, with call_soon, when the task ended.
DoneCallback(k) ==
  /\ k \in DOMAIN tasks
  /\ tasks[k].loop \in live
  /\ Finished(k)
  /\ CallbackDue(k)
  /\ tasks' = [tasks EXCEPT ![k].cb = 2,
                            ![k].reported = @ + LogBackgroundTaskError(tasks[k])]
  /\ UNCHANGED <<pluginVars, regVars, cacheVars, dev, plugins, apps, lpc, lerr, starts, rThread,
                 rLoop, created, live, stop_event, bundle_task, watcher_tasks, stopSet,
                 calls, raised>>

\* ------------------------------------------------- Amber.__call__, _lifespan
\* _schedule_watcher_tasks: the event it makes is named after the start g.
ScheduleWatcherTasks(d, g) ==
  IF ~d \/ plugins = 0
    THEN [stop_event |-> 0, watcher_tasks |-> {},
          made |-> [k \in {} |-> Task("watch", TRUE, 0, rLoop, 0)]]
    ELSE [stop_event |-> g, watcher_tasks |-> {Key(g, i) : i \in 1..plugins},
          made |-> [k \in {Key(g, i) : i \in 1..plugins} |->
                      Task("watch", TRUE, k[2], rLoop, g)]]

\* faulty variant: the lifespan is wrapped whether or not a view is registered
EnterLifespanWrapsAlways ==
  /\ starts < MaxStarts
  /\ starts' = starts + 1
  /\ lerr' = None
  /\ RunnerStart
  /\ IF dev
       THEN lpc' = "start_dev" /\ UNCHANGED tasks
       ELSE /\ lpc' = "pipeline"
            /\ tasks' = Unfinished @@ (Key(starts', 0) :>
                                    Task("pipeline", FALSE, 0, rLoop', 0))
  /\ UNCHANGED <<pluginVars, regVars, cacheVars, dev, plugins, apps, stop_event, bundle_task, watcher_tasks,
                 stopSet, calls, raised>>

\* Entering the lifespan, up to the hand-over of the coroutine to the worker
\* (runner.run: start(), run_coroutine_threadsafe).  With no registered view
\* __call__ returned the application with its original lifespan.
EnterLifespan ==
  /\ starts < MaxStarts
  /\ starts' = starts + 1
  /\ lerr' = None
  /\ IF apps = {}
       THEN /\ lpc' = "enter_original"
            /\ UNCHANGED <<rThread, rLoop, created, live, tasks>>
       ELSE /\ RunnerStart
            /\ IF dev
                 THEN lpc' = "start_dev" /\ UNCHANGED tasks
                 ELSE /\ lpc' = "pipeline"
                      /\ tasks' = Unfinished @@ (Key(starts', 0) :>
                                              Task("pipeline", FALSE, 0, rLoop', 0))
  /\ UNCHANGED <<pluginVars, regVars, cacheVars, dev, plugins, apps, stop_event, bundle_task, watcher_tasks,
                 stopSet, calls, raised>>

\* The server enters the lifespan of a new application, of one that has
\* exited, and, again, of one whose start failed, once the tasks that start
\* left on the worker have ended and their callbacks have run.
LifespanEnter ==
  /\ lpc \in {"idle", "exited"} \/ (lpc = "failed" /\ Quiet(rLoop))
  /\ EnterLifespan

\* The server enters the lifespan again after a failed start while tasks of
\* that start are still on the worker.
LifespanRetry ==
  /\ lpc = "failed"
  /\ ~Quiet(rLoop)
  /\ EnterLifespan

\* add_done_callback(self._log_background_task_error) on each task of ts
WithCallback(ts) == [k \in DOMAIN ts |-> [ts[k] EXCEPT !.cb = 1]]

\* _start_dev on the worker; it has no await, so it is one step.
StartDev ==
  LET g == starts
      s == ScheduleWatcherTasks(TRUE, g)
  IN
  /\ lpc = "start_dev"
  /\ stop_event' = s.stop_event
  /\ watcher_tasks' = s.watcher_tasks
  /\ bundle_task' = Key(g, 0)
  /\ tasks' = Unfinished @@ WithCallback(s.made @@ (Key(g, 0) :> Task("pipeline", TRUE, 0, rLoop, 0)))
  /\ lpc' = "enter_original"
  /\ UNCHANGED <<pluginVars, regVars, cacheVars, dev, plugins, apps, lerr, starts, rThread, rLoop,
                 created, live, stopSet, calls, raised>>

FutureDoneAtOnce(k) == TRUE

\* future.result() blocks until the coroutine handed to the worker is over.
FutureDone(k) == Finished(k)

\* runner.run(self._run_build_pipeline(dev=False)) returns or raises.
PipelineResult ==
  LET k == Key(starts, 0) IN
  /\ lpc = "pipeline"
  /\ FutureDone(k)
  /\ IF tasks[k].st = "failed"
       THEN lpc' = "failed" /\ lerr' = tasks[k].exc
       ELSE lpc' = "enter_original" /\ UNCHANGED lerr
  /\ UNCHANGED <<pluginVars, regVars, cacheVars, dev, plugins, apps, starts, rThread, rLoop, created,
                 live, tasks, stop_event, bundle_task, watcher_tasks, stopSet, calls, raised>>

\* "async with original_lifespan(starlette_app)" up to the yield.
EnterOriginal(ok) ==
  /\ lpc = "enter_original"
  /\ IF ok THEN lpc' = "ready" /\ UNCHANGED lerr
           ELSE lpc' = "failed" /\ lerr' = <<"original", 0>>
  /\ UNCHANGED <<pluginVars, regVars, cacheVars, dev, plugins, apps, starts, rThread, rLoop, created,
                 live, tasks, stop_event, bundle_task, watcher_tasks, stopSet, calls, raised>>

\* The finally of the lifespan begins.
LifespanExit ==
  /\ lpc = "ready"
  /\ IF apps = {}
       THEN lpc' = "exited" /\ UNCHANGED <<rThread, rLoop, created, live>>
       ELSE IF dev
         THEN lpc' = "shutdown_run" /\ RunnerStart
         ELSE lpc' = "stop_call" /\ UNCHANGED <<rThread, rLoop, created, live>>
  /\ UNCHANGED <<pluginVars, regVars, cacheVars, dev, plugins, apps, lerr, starts, tasks, stop_event,
                 bundle_task, watcher_tasks, stopSet, calls, raised>>

ShutdownTasks == ({bundle_task} \ {None}) \cup watcher_tasks

ShutdownDevTasksNoSignal ==
  /\ lpc = "shutdown_run"
  /\ stopSet' = stopSet
  /\ tasks' = Cancel(ShutdownTasks)
  /\ lpc' = IF ShutdownTasks = {} THEN "stop_call" ELSE "shutdown_gather"

\* faulty variant: the tasks are signalled but not cancelled
ShutdownDevTasksNoCancel ==
  /\ lpc = "shutdown_run"
  /\ stopSet' = IF stop_event # 0 THEN stopSet \cup {stop_event} ELSE stopSet
  /\ tasks' = tasks
  /\ lpc' = IF ShutdownTasks = {} THEN "stop_call" ELSE "shutdown_gather"

\* _shutdown_dev_tasks up to its await.
ShutdownDevTasks ==
  /\ lpc = "shutdown_run"
  /\ stopSet' = IF stop_event # 0 THEN stopSet \cup {stop_event} ELSE stopSet
  /\ tasks' = Cancel(ShutdownTasks)
  /\ lpc' = IF ShutdownTasks = {} THEN "stop_call" ELSE "shutdown_gather"

Shutdown ==
  /\ ShutdownDevTasks
  /\ UNCHANGED <<pluginVars, regVars, cacheVars, dev, plugins, apps, lerr, starts, rThread, rLoop,
                 created, live, stop_event, bundle_task, watcher_tasks, calls,
                 raised>>

\* The gather of _shutdown_dev_tasks is over and runner.run returns.
ShutdownGathered ==
  /\ lpc = "shutdown_gather"
  /\ \A k \in ShutdownTasks : Finished(k) /\ ~CallbackDue(k)
  /\ tasks' = Await(tasks, ShutdownTasks)
  /\ lpc' = "stop_call"
  /\ UNCHANGED <<pluginVars, regVars, cacheVars, dev, plugins, apps, lerr, starts, rThread, rLoop,
                 created, live, stop_event, bundle_task, watcher_tasks, stopSet, calls, raised>>

\* runner.stop() of the finally.
LifespanStop ==
  /\ lpc = "stop_call"
  /\ RunnerStop("joining", "exited")
  /\ UNCHANGED <<pluginVars, regVars, cacheVars, dev, plugins, apps, lerr, starts, created, stop_event,
                 bundle_task, watcher_tasks, stopSet, calls>>

LifespanJoined ==
  /\ RunnerJoined("joining", "exited")
  /\ UNCHANGED <<pluginVars, regVars, cacheVars, dev, plugins, apps, lerr, starts, created, stop_event,
                 bundle_task, watcher_tasks, stopSet, calls, raised>>

CacheQuiet ==
  /\ cache_html = TRUE
  /\ ssr = [v \in Views |-> FALSE]
  /\ server_path = [v \in Views |-> None]
  /\ clock = 1
  /\ disk = [v \in Views |-> [f \in Files |-> Absent]]
  /\ cached_fingerprint = [v \in Views |-> None]
  /\ cached_html = [v \in Views |-> None]
  /\ cache_lock = [v \in Views |-> [holder |-> 0, waiters |-> <<>>]]
  /\ rd = [r \in Readers |-> IdleReader]

RunnerNew ==
  /\ rThread = 0
  /\ rLoop = 0
  /\ created = 0
  /\ live = {}
  /\ tasks = [k \in {} |-> Task("watch", TRUE, 0, 0, 0)]
  /\ stop_event = 0
  /\ bundle_task = None
  /\ watcher_tasks = {}
  /\ stopSet = {}
  /\ calls = <<>>
  /\ raised = FALSE

InitLife ==
  /\ CacheQuiet
  /\ RunnerNew
  /\ NoWatch
  /\ NoRuntime
  /\ Registered
  /\ dev \in BOOLEAN
  /\ plugins \in 0..NumPlugins
  /\ apps \in {{}, RegisteredViews}
  /\ lpc = "idle"
  /\ lerr = None
  /\ starts = 0

NextLife ==
  \/ LifespanEnter
  \/ StartDev
  \/ \E k \in DOMAIN tasks : PipelineStart(k)
  \/ \E k \in DOMAIN tasks, ok \in BOOLEAN : BundleReturn(k, ok)
  \/ \E k \in DOMAIN tasks, ok \in BOOLEAN : PluginBuildReturn(k, ok)
  \/ \E k \in DOMAIN tasks : WatchStart(k)
  \/ \E k \in DOMAIN tasks, ok \in BOOLEAN : WatchEnd(k, ok)
  \/ \E k \in DOMAIN tasks : Cancelled(k)
  \/ \E k \in DOMAIN tasks : DoneCallback(k)
  \/ PipelineResult
  \/ \E ok \in BOOLEAN : EnterOriginal(ok)
  \/ LifespanExit
  \/ Shutdown
  \/ ShutdownGathered
  \/ LifespanStop
  \/ LifespanJoined

SpecLife == InitLife /\ [][NextLife]_vars

\* The scheduling the exit of a lifespan relies on.  The thread that runs the
\* lifespan goes on whenever it can (it blocks in future.result() and in
\* join() only); the loop of a live worker runs the callbacks that are due;
\* and a task whose cancellation is requested reaches an await, where it gets
\* the CancelledError, unless it ends before.  Nothing is assumed of how long
\* bundle() or a plugin's hook takes when it is not cancelled.
TaskKeys == (1..MaxStarts) \X (0..NumPlugins)

FairLife ==
  /\ WF_vars(Shutdown)
  /\ WF_vars(ShutdownGathered)
  /\ WF_vars(LifespanStop)
  /\ WF_vars(LifespanJoined)
  /\ \A k \in TaskKeys : WF_vars(Cancelled(k))
  /\ \A k \in TaskKeys : WF_vars(DoneCallback(k))

SpecLifeFair == InitLife /\ [][NextLife]_vars /\ FairLife

\* The same with every retry after a failed start.
NextRetry ==
  \/ NextLife
  \/ LifespanRetry

SpecRetry == InitLife /\ [][NextRetry]_vars

\* The lifespan of a production application with at least one view: of the
\* actions above, the ones such an application can take.
InitProd ==
  /\ CacheQuiet
  /\ RunnerNew
  /\ NoWatch
  /\ NoRuntime
  /\ Registered
  /\ dev = FALSE
  /\ plugins \in 0..NumPlugins
  /\ apps = RegisteredViews
  /\ lpc = "idle"
  /\ lerr = None
  /\ starts = 0

NextProd ==
  \/ LifespanEnter
  \/ \E k \in DOMAIN tasks : PipelineStart(k)
  \/ \E k \in DOMAIN tasks, ok \in BOOLEAN : BundleReturn(k, ok)
  \/ \E k \in DOMAIN tasks, ok \in BOOLEAN : PluginBuildReturn(k, ok)
  \/ PipelineResult
  \/ \E ok \in BOOLEAN : EnterOriginal(ok)
  \/ LifespanExit
  \/ LifespanStop
  \/ LifespanJoined

SpecProd == InitProd /\ [][NextProd]_vars

\* ----------------------------------------------------------- Ship.__call__
\* core.py:424-566.  The pages of a Ship are in apps, the dev argument of
\* the factory in dev, the position of the caller in lpc; every call of the
\* factory makes a runner of its own.
ShipPages == {[path |-> <<"app", d, "page.tsx">>, app |-> FALSE, ssr |-> FALSE] : d \in {"a", "b"}}

\* the arguments of a call of bundle() by Ship._run_build, and how it ended
ShipEvent(d, ph) == [op |-> "bundle", who |-> 0, dev |-> FALSE, minify |-> ~d, ph |-> ph]

\* core.py:529-532: with no page the routes are built at once; else a new
\* runner is made and the coroutine of _run_build is handed to its worker
ShipCall(d) ==
  /\ lpc \in {"idle", "returned", "raised"}
  /\ starts < MaxStarts
  /\ starts' = starts + 1
  /\ dev' = d
  /\ lerr' = None
  /\ IF apps = {}
       THEN /\ lpc' = "returned"
            /\ UNCHANGED <<rThread, rLoop, created, live, tasks>>
       ELSE /\ RunnerStart
            /\ tasks' = Unfinished @@ (Key(starts', 0) :> Task("ship", d, 0, rLoop', 0))
            /\ lpc' = "ship_run"
  /\ UNCHANGED <<pluginVars, regVars, cacheVars, plugins, apps, stop_event, bundle_task,
                 watcher_tasks, stopSet, calls, raised>>

\* core.py:518-525: _run_build calls bundle(dev=False, minify=not dev)
ShipBuildStart(k) ==
  /\ Runnable(k)
  /\ tasks[k].kind = "ship"
  /\ tasks[k].st = "created"
  /\ tasks' = [tasks EXCEPT ![k].st = "bundle",
                            ![k].log = Append(@, ShipEvent(tasks[k].dev, "call"))]
  /\ UNCHANGED <<pluginVars, regVars, cacheVars, dev, plugins, apps, lpc, lerr, starts, rThread,
                 rLoop, created, live, stop_event, bundle_task, watcher_tasks, stopSet, calls,
                 raised>>

\* bundle() returns or raises, and with it _run_build
ShipBundleReturn(k, ok) ==
  /\ Runnable(k)
  /\ tasks[k].kind = "ship"
  /\ tasks[k].st = "bundle"
  /\ tasks' = [tasks EXCEPT ![k].st = IF ok THEN "done" ELSE "failed",
                            ![k].exc = IF ok THEN None ELSE <<"bundle", 0>>,
                            ![k].log = Append(@, ShipEvent(tasks[k].dev,
                                                           IF ok THEN "ret" ELSE "raise"))]
  /\ UNCHANGED <<pluginVars, regVars, cacheVars, dev, plugins, apps, lpc, lerr, starts, rThread,
                 rLoop, created, live, stop_event, bundle_task, watcher_tasks, stopSet, calls,
                 raised>>

\* faulty variant: runner.stop() is called after a build that returned only
ShipResultNoFinally ==
  LET k == Key(starts, 0) IN
  /\ lpc = "ship_run"
  /\ FutureDone(k)
  /\ IF tasks[k].st = "failed"
       THEN lpc' = "raised" /\ lerr' = tasks[k].exc
       ELSE lpc' = "ship_stop" /\ lerr' = None
  /\ UNCHANGED <<pluginVars, regVars, cacheVars, dev, plugins, apps, starts, rThread, rLoop,
                 created, live, tasks, stop_event, bundle_task, watcher_tasks, stopSet, calls,
                 raised>>

\* core.py:532-534: future.result() returns or raises; the finally is next
ShipResult ==
  LET k == Key(starts, 0) IN
  /\ lpc = "ship_run"
  /\ FutureDone(k)
  /\ lpc' = "ship_stop"
  /\ lerr' = IF tasks[k].st = "failed" THEN tasks[k].exc ELSE None
  /\ UNCHANGED <<pluginVars, regVars, cacheVars, dev, plugins, apps, starts, rThread, rLoop,
                 created, live, tasks, stop_event, bundle_task, watcher_tasks, stopSet, calls,
                 raised>>

\* what follows the finally: the routes and the return, or the exception
ShipAfterStop == IF lerr = None THEN "returned" ELSE "raised"

\* core.py:534: runner.stop()
ShipStop ==
  /\ lpc = "ship_stop"
  /\ RunnerStop("ship_joining", ShipAfterStop)
  /\ UNCHANGED <<pluginVars, regVars, cacheVars, dev, plugins, apps, lerr, starts, created,
                 stop_event, bundle_task, watcher_tasks, stopSet, calls>>

ShipJoined ==
  /\ RunnerJoined("ship_joining", ShipAfterStop)
  /\ UNCHANGED <<pluginVars, regVars, cacheVars, dev, plugins, apps, lerr, starts, created,
                 stop_event, bundle_task, watcher_tasks, stopSet, calls, raised>>

InitShip ==
  /\ CacheQuiet
  /\ RunnerNew
  /\ NoWatch
  /\ NoRuntime
  /\ Registered
  /\ dev = FALSE
  /\ plugins = 0
  /\ apps \in SUBSET ShipPages
  /\ lpc = "idle"
  /\ lerr = None
  /\ starts = 0

NextShip ==
  \/ \E d \in BOOLEAN : ShipCall(d)
  \/ \E k \in DOMAIN tasks : ShipBuildStart(k)
  \/ \E k \in DOMAIN tasks, ok \in BOOLEAN : ShipBundleReturn(k, ok)
  \/ ShipResult
  \/ ShipStop
  \/ ShipJoined

SpecShip == InitShip /\ [][NextShip]_vars

\* ------------------------------------------------- the Amber of amber.py
\* amber.py:40-109.  _ui_paths is in apps, _bundle_future in bundle_task (None
\* or the future of the one call of bundle()), _dev in dev; starts counts the
\* calls of bundle(); disk[v] tells which of the two files of view v are
\* under the output directory; rd holds the reads of the resources.
UiPaths == {"a", "b"}

\* amber.py:11-31 and 99-105: the page made of the script and the style sheet
HtmlTemplate(v, css_there) == <<"html", v, IF css_there THEN "style" ELSE "">>

\* faulty variant: bundle() is called whether or not a future is kept
EnsureBundlingAlways ==
  IF apps # {}
    THEN /\ bundle_task' = [st |-> "pending", paths |-> apps, dev |-> dev]
         /\ starts' = starts + 1
    ELSE UNCHANGED <<bundle_task, starts>>

\* amber.py:48-50: _ensure_bundling
EnsureBundling ==
  IF bundle_task = None /\ apps # {}
    THEN /\ bundle_task' = [st |-> "pending", paths |-> apps, dev |-> dev]
         /\ starts' = starts + 1
    ELSE UNCHANGED <<bundle_task, starts>>

\* amber.py:97-105: the test of the loop and, when the script is there, the
\* rest of the handler, which has no await
HandlerLoop(r, v) ==
  IF disk[v].js
    THEN rd' = [rd EXCEPT ![r] = [pc |-> "done", view |-> v,
                                  res |-> HtmlTemplate(v, disk[v].css)]]
    ELSE rd' = [rd EXCEPT ![r] = [pc |-> "sleep", view |-> v, res |-> None]]

LegacyRest == <<cache_html, ssr, server_path, clock, cached_fingerprint, cached_html,
                cache_lock, plugins, lpc, lerr, rThread, rLoop, created, live, tasks,
                stop_event, watcher_tasks, stopSet, calls, raised, regVars, pluginVars>>

\* amber.py:52-109: tool(ui=v) adds the path and registers the handler
LegacyTool(v) ==
  /\ v \notin apps
  /\ apps' = apps \cup {v}
  /\ UNCHANGED <<LegacyRest, disk, rd, dev, starts, bundle_task>>

\* amber.py:95-98: a read of the resource of view v, up to its first await
ResourceHandler(r, v) ==
  /\ rd[r].pc = "idle"
  /\ \A q \in Readers : q < r => rd[q].pc # "idle"
  /\ v \in apps
  /\ EnsureBundling
  /\ HandlerLoop(r, v)
  /\ UNCHANGED <<LegacyRest, disk, dev, apps>>

\* amber.py:97-98: asyncio.sleep(0.05) is over and the test is made again
ResourceHandlerWake(r) ==
  /\ rd[r].pc = "sleep"
  /\ HandlerLoop(r, rd[r].view)
  /\ UNCHANGED <<LegacyRest, disk, dev, apps, starts, bundle_task>>

\* amber.py:50: the bundler that was started writes a file of one of its
\* views, the style sheet not before the script
BundleEmits(v, f) ==
  /\ bundle_task # None
  /\ bundle_task.st = "pending"
  /\ v \in bundle_task.paths
  /\ ~disk[v][f]
  /\ f = "css" => disk[v].js
  /\ disk' = [disk EXCEPT ![v][f] = TRUE]
  /\ UNCHANGED <<LegacyRest, rd, dev, apps, starts, bundle_task>>

\* amber.py:50: the future of bundle() is done: with a result when the script
\* of every view it was given is written, with an exception at any time
BundleEnds(ok) ==
  /\ bundle_task # None
  /\ bundle_task.st = "pending"
  /\ ok => \A v \in bundle_task.paths : disk[v].js
  /\ bundle_task' = [bundle_task EXCEPT !.st = IF ok THEN "done" ELSE "failed"]
  /\ UNCHANGED <<LegacyRest, disk, rd, dev, apps, starts>>

\* amber.py:41-46: a new Amber; the output directory is empty or holds the
\* script of an earlier run
InitLegacy ==
  /\ cache_html = TRUE
  /\ ssr = [v \in Views |-> FALSE]
  /\ server_path = [v \in Views |-> None]
  /\ clock = 1
  /\ cached_fingerprint = None
  /\ cached_html = None
  /\ cache_lock = None
  /\ RunnerNew
  /\ NoWatch
  /\ NoRuntime
  /\ Registered
  /\ plugins = 0
  /\ lpc = "idle"
  /\ lerr = None
  /\ starts = 0
  /\ dev \in BOOLEAN
  /\ apps = {}
  /\ disk \in {[v \in UiPaths |-> [js |-> v \in old, css |-> FALSE]] : old \in {{}, {"a"}}}
  /\ rd = [r \in Readers |-> [pc |-> "idle", view |-> "a", res |-> None]]

NextLegacy ==
  \/ \E v \in UiPaths : LegacyTool(v)
  \/ \E r \in Readers, v \in UiPaths : ResourceHandler(r, v)
  \/ \E r \in Readers : ResourceHandlerWake(r)
  \/ \E v \in UiPaths, f \in {"js", "css"} : BundleEmits(v, f)
  \/ \E ok \in BOOLEAN : BundleEnds(ok)

SpecLegacy == InitLegacy /\ [][NextLegacy]_vars

\* the event loop runs every read that sleeps, and the bundler goes on
FairLegacy ==
  /\ \A r \in Readers : WF_vars(ResourceHandlerWake(r))
  /\ \A v \in UiPaths, f \in {"js", "css"} : WF_vars(BundleEmits(v, f))
  /\ WF_vars(\E ok \in BOOLEAN : BundleEnds(ok))

SpecLegacyFair == SpecLegacy /\ FairLegacy

\* ------------------------------------------ a client of _AsyncThreadRunner
\* One thread calling start(), run(coro) and stop() of a runner in any order.
\* The coroutine returns, raises, or leaves a task behind on the loop.
Coroutines == {"returns", "raises", "spawns"}

ClientStart ==
  /\ lpc = "client"
  /\ Len(calls) < MaxCalls
  /\ RunnerStart
  /\ calls' = Append(calls, "start")
  /\ raised' = FALSE
  /\ UNCHANGED <<pluginVars, regVars, cacheVars, dev, plugins, apps, lpc, lerr, starts, tasks,
                 stop_event, bundle_task, watcher_tasks, stopSet>>

ClientRun(c) ==
  /\ lpc = "client"
  /\ Len(calls) < MaxCalls
  /\ RunnerStart
  /\ calls' = Append(calls, "run")
  /\ raised' = (c = "raises")
  /\ tasks' = IF c = "spawns"
                THEN tasks @@ (Key(Len(calls'), 1) :> Task("watch", TRUE, 1, rLoop', 0))
                ELSE tasks
  /\ UNCHANGED <<pluginVars, regVars, cacheVars, dev, plugins, apps, lpc, lerr, starts, stop_event,
                 bundle_task, watcher_tasks, stopSet>>

ClientStop ==
  /\ lpc = "client"
  /\ Len(calls) < MaxCalls
  /\ RunnerStop("client_joining", "client")
  /\ calls' = Append(calls, "stop")
  /\ UNCHANGED <<pluginVars, regVars, cacheVars, dev, plugins, apps, lerr, starts, created, stop_event,
                 bundle_task, watcher_tasks, stopSet>>

ClientJoined ==
  /\ RunnerJoined("client_joining", "client")
  /\ UNCHANGED <<pluginVars, regVars, cacheVars, dev, plugins, apps, lerr, starts, created, stop_event,
                 bundle_task, watcher_tasks, stopSet, calls, raised>>

InitRunner ==
  /\ CacheQuiet
  /\ RunnerNew
  /\ NoWatch
  /\ NoRuntime
  /\ Registered
  /\ dev = FALSE
  /\ plugins = 0
  /\ apps = {}
  /\ lpc = "client"
  /\ lerr = None
  /\ starts = 0

NextRunner ==
  \/ ClientStart
  \/ \E c \in Coroutines : ClientRun(c)
  \/ ClientStop
  \/ ClientJoined
  \/ \E k \in DOMAIN tasks : WatchStart(k)
  \/ \E k \in DOMAIN tasks, ok \in BOOLEAN : WatchEnd(k, ok)
  \/ \E k \in DOMAIN tasks : Cancelled(k)

SpecRunner == InitRunner /\ [][NextRunner]_vars

\* ------------------------------------------------- a sequence of tool() calls
\* The page arguments tried: well-formed files and bare directories, and one
\* of each kind that tool() rejects.
PageInputs ==
  {<<"a", "page.tsx">>, <<"a", "page.jsx">>, <<"a">>, <<"b">>, <<"b", "page.jsx">>,
   <<"/", "a", "page.tsx">>, <<"a", "..", "a", "page.tsx">>, <<"apps", "a", "page.tsx">>,
   <<"a", "view.tsx">>, <<"a", "page.ts">>, <<"page.tsx">>, <<>>,
   <<".", "a", "", "page.tsx">>, <<"apps">>, <<"c.d">>, <<"c.d", "page.tsx">>}

SourceFiles == {<<"apps", "a", "page.tsx">>, <<"apps", "a", "page.jsx">>,
                <<"apps", "b", "page.jsx">>, <<"apps", "c.d", "page.tsx">>}

InitRegistry ==
  /\ CacheQuiet
  /\ RunnerNew
  /\ NoWatch
  /\ NoRuntime
  /\ dev = FALSE
  /\ plugins = 0
  /\ apps = {}
  /\ lpc = "idle"
  /\ lerr = None
  /\ starts = 0
  /\ amber_ssr \in BOOLEAN
  /\ views_dir \in SUBSET SourceFiles
  /\ last_reg = [p \in {} |-> FALSE]
  /\ reg_calls = 0
  /\ reg_page = <<>>
  /\ reg_err = "none"
  /\ decorator = None
  /\ mcp_tools = 0
  /\ mcp_resources = <<>>

NextRegistry ==
  \/ \E raw \in PageInputs, s \in SsrArgs : Tool(raw, s)
  \/ Decorator

SpecRegistry == InitRegistry /\ [][NextRegistry]_vars

\* --------------------------------------------------- the cache, assembled
FileStates(v, f, s) ==
  {Absent} \cup
  (IF f = "server" /\ ~s THEN {} ELSE {[stat |-> 1, kind |-> k, ver |-> 1] : k \in KindsOf(f)})

InitCache ==
  /\ cache_html = TRUE
  /\ ssr \in [Views -> BOOLEAN]
  /\ server_path \in [Views -> {None, <<"server">>}]
  /\ clock = 1
  /\ disk \in [Views -> [Files -> {Absent} \cup {[stat |-> 1, kind |-> k, ver |-> 1] :
                                    k \in ClientKinds \cup ServerKinds \cup CssKinds}]]
  /\ \A v \in Views : \A f \in Files : disk[v][f] \in FileStates(v, f, server_path[v] # None)
  /\ cached_fingerprint = [v \in Views |-> None]
  /\ cached_html = [v \in Views |-> None]
  /\ cache_lock = [v \in Views |-> [holder |-> 0, waiters |-> <<>>]]
  /\ rd = [r \in Readers |-> IdleReader]
  /\ RunnerNew
  /\ NoWatch
  /\ NoRuntime
  /\ Registered
  /\ dev = FALSE
  /\ plugins = 0
  /\ apps = RegisteredViews
  /\ lpc = "idle"
  /\ lerr = None
  /\ starts = 0

NextCache ==
  \/ \E r \in Readers, v \in Views : StartRead(r, v)
  \/ \E r \in Readers : FpClientExists(r)
  \/ \E r \in Readers : FpClientStat(r)
  \/ \E r \in Readers : FpServerExists(r)
  \/ \E r \in Readers : FpServerStat(r)
  \/ \E r \in Readers : FpCssExists(r)
  \/ \E r \in Readers : FpCssStat(r)
  \/ \E r \in Readers : AcquireLock(r)
  \/ \E r \in Readers : RenderClientExists(r)
  \/ \E r \in Readers : RenderClientRead(r)
  \/ \E r \in Readers : RenderServerExists(r)
  \/ \E r \in Readers : RenderServerRead(r)
  \/ \E r \in Readers : RenderRun(r)
  \/ \E r \in Readers : RenderCssExists(r)
  \/ \E r \in Readers : RenderCssRead(r)
  \/ \E v \in Views, f \in Files : \E k \in KindsOf(f) : WriteArtifact(v, f, k)
  \/ \E v \in Views, f \in Files : RemoveArtifact(v, f)

SpecCache == InitCache /\ [][NextCache]_vars

\* what a build writes into file f
BuiltKind(f) == IF f = "client" THEN "js" ELSE IF f = "server" THEN "markup" ELSE "css"

\* an artifact is absent or as a build wrote it
BuildStates(v, f, s) ==
  {Absent} \cup (IF f = "server" /\ ~s THEN {} ELSE {[stat |-> 1, kind |-> BuiltKind(f), ver |-> 1]})

\* An application made with cache_html=False; no read comes to the lock.
\* Every artifact is absent or as a build left it; the other contents come
\* by later writes.
InitNoCache ==
  /\ cache_html = FALSE
  /\ ssr \in [Views -> BOOLEAN]
  /\ server_path \in [Views -> {None, <<"server">>}]
  /\ clock = 1
  /\ disk \in [Views -> [Files -> {Absent} \cup {[stat |-> 1, kind |-> BuiltKind(f), ver |-> 1] :
                                                  f \in Files}]]
  /\ \A v \in Views : \A f \in Files : disk[v][f] \in BuildStates(v, f, server_path[v] # None)
  /\ cached_fingerprint = [v \in Views |-> None]
  /\ cached_html = [v \in Views |-> None]
  /\ cache_lock = [v \in Views |-> [holder |-> 0, waiters |-> <<>>]]
  /\ rd = [r \in Readers |-> IdleReader]
  /\ RunnerNew
  /\ NoWatch
  /\ NoRuntime
  /\ Registered
  /\ dev = FALSE
  /\ plugins = 0
  /\ apps = RegisteredViews
  /\ lpc = "idle"
  /\ lerr = None
  /\ starts = 0

NextNoCache ==
  \/ \E r \in Readers, v \in Views : StartRead(r, v)
  \/ \E r \in Readers : FpClientExists(r)
  \/ \E r \in Readers : FpClientStat(r)
  \/ \E r \in Readers : FpServerExists(r)
  \/ \E r \in Readers : FpServerStat(r)
  \/ \E r \in Readers : FpCssExists(r)
  \/ \E r \in Readers : FpCssStat(r)
  \/ \E r \in Readers : RenderClientExists(r)
  \/ \E r \in Readers : RenderClientRead(r)
  \/ \E r \in Readers : RenderServerExists(r)
  \/ \E r \in Readers : RenderServerRead(r)
  \/ \E r \in Readers : RenderRun(r)
  \/ \E r \in Readers : RenderCssExists(r)
  \/ \E r \in Readers : RenderCssRead(r)
  \/ \E v \in Views, f \in Files : \E k \in KindsOf(f) : WriteArtifact(v, f, k)
  \/ \E v \in Views, f \in Files : RemoveArtifact(v, f)

SpecNoCache == InitNoCache /\ [][NextNoCache]_vars

\* A built view with a server script, and that script overwritten again and
\* again: with a changed modification time or size, or with both kept.
InitOverwrite ==
  /\ cache_html = TRUE
  /\ ssr \in [Views -> BOOLEAN]
  /\ server_path = [v \in Views |-> <<"server">>]
  /\ clock = 1
  /\ disk \in [Views -> [Files -> {Absent} \cup {[stat |-> 1, kind |-> k, ver |-> 1] :
                                    k \in {"js", "css"} \cup ServerKinds}]]
  /\ \A v \in Views :
       /\ disk[v]["client"].kind = "js"
       /\ disk[v]["server"].kind \in ServerKinds
       /\ disk[v]["css"].kind \in {"none", "css"}
  /\ cached_fingerprint = [v \in Views |-> None]
  /\ cached_html = [v \in Views |-> None]
  /\ cache_lock = [v \in Views |-> [holder |-> 0, waiters |-> <<>>]]
  /\ rd = [r \in Readers |-> IdleReader]
  /\ RunnerNew
  /\ NoWatch
  /\ NoRuntime
  /\ Registered
  /\ dev = FALSE
  /\ plugins = 0
  /\ apps = RegisteredViews
  /\ lpc = "idle"
  /\ lerr = None
  /\ starts = 0

NextOverwrite ==
  \/ \E r \in Readers, v \in Views : StartRead(r, v)
  \/ \E r \in Readers : FpClientExists(r)
  \/ \E r \in Readers : FpClientStat(r)
  \/ \E r \in Readers : FpServerExists(r)
  \/ \E r \in Readers : FpServerStat(r)
  \/ \E r \in Readers : FpCssExists(r)
  \/ \E r \in Readers : FpCssStat(r)
  \/ \E r \in Readers : AcquireLock(r)
  \/ \E r \in Readers : RenderClientExists(r)
  \/ \E r \in Readers : RenderClientRead(r)
  \/ \E r \in Readers : RenderServerExists(r)
  \/ \E r \in Readers : RenderServerRead(r)
  \/ \E r \in Readers : RenderRun(r)
  \/ \E r \in Readers : RenderCssExists(r)
  \/ \E r \in Readers : RenderCssRead(r)
  \/ \E v \in Views, k \in ServerKinds : WriteArtifact(v, "server", k)
  \/ \E v \in Views, k \in ServerKinds : RewriteArtifact(v, "server", k)

SpecOverwrite == InitOverwrite /\ [][NextOverwrite]_vars

\* Two registered views, each with its own handler, lock and cache entry;
\* both are built, with SSR, and are built again now and then.
TwoViews == {"a", "b"}

InitViews ==
  /\ cache_html = TRUE
  /\ ssr = [v \in TwoViews |-> TRUE]
  /\ server_path = [v \in TwoViews |-> <<"server">>]
  /\ clock = 1
  /\ disk = [v \in TwoViews |->
               [f \in Files |-> IF f = "css" THEN Absent
                                ELSE [stat |-> 1, kind |-> BuiltKind(f), ver |-> 1]]]
  /\ cached_fingerprint = [v \in TwoViews |-> None]
  /\ cached_html = [v \in TwoViews |-> None]
  /\ cache_lock = [v \in TwoViews |-> [holder |-> 0, waiters |-> <<>>]]
  /\ rd = [r \in Readers |-> IdleReader]
  /\ RunnerNew
  /\ NoWatch
  /\ NoRuntime
  /\ amber_ssr = TRUE
  /\ views_dir = {<<"apps", v, "page.tsx">> : v \in TwoViews}
  /\ last_reg = [q \in {<<"apps", v, "page.tsx">> : v \in TwoViews} |-> TRUE]
  /\ reg_calls = 0
  /\ reg_page = <<>>
  /\ reg_err = "none"
  /\ decorator = None
  /\ mcp_tools = 2
  /\ mcp_resources = Listed({Uri(<<v, "page.tsx">>) : v \in TwoViews})
  /\ dev = FALSE
  /\ plugins = 0
  /\ apps = {Page(<<"apps", v, "page.tsx">>, TRUE) : v \in TwoViews}
  /\ lpc = "idle"
  /\ lerr = None
  /\ starts = 0

NextViews ==
  \/ \E r \in Readers, v \in TwoViews : StartRead(r, v)
  \/ \E r \in Readers : FpClientExists(r)
  \/ \E r \in Readers : FpClientStat(r)
  \/ \E r \in Readers : FpServerExists(r)
  \/ \E r \in Readers : FpServerStat(r)
  \/ \E r \in Readers : FpCssExists(r)
  \/ \E r \in Readers : FpCssStat(r)
  \/ \E r \in Readers : AcquireLock(r)
  \/ \E r \in Readers : RenderClientExists(r)
  \/ \E r \in Readers : RenderClientRead(r)
  \/ \E r \in Readers : RenderServerExists(r)
  \/ \E r \in Readers : RenderServerRead(r)
  \/ \E r \in Readers : RenderRun(r)
  \/ \E r \in Readers : RenderCssExists(r)
  \/ \E r \in Readers : RenderCssRead(r)
  \/ \E v \in TwoViews, f \in Files : WriteArtifact(v, f, BuiltKind(f))

SpecViews == InitViews /\ [][NextViews]_vars

\* ------------------------------------- a development server and its reads
\* bundle(dev=True) keeps running and writes the artifacts of the views it
\* builds and builds again.
BundleWrites(k, v, f) ==
  /\ Runnable(k)
  /\ tasks[k].kind = "pipeline"
  /\ tasks[k].st = "bundle"
  /\ tasks[k].dev
  /\ ~tasks[k].cancelReq
  /\ WriteArtifact(v, f, BuiltKind(f))

\* a read request reaches the handler of a running application
ServedRead(r, v) ==
  /\ lpc = "ready"
  /\ StartRead(r, v)

\* Nothing is built when the application is made.
InitDev ==
  /\ cache_html = TRUE
  /\ ssr \in [Views -> BOOLEAN]
  /\ server_path \in [Views -> {None, <<"server">>}]
  /\ clock = 1
  /\ disk = [v \in Views |-> [f \in Files |-> Absent]]
  /\ cached_fingerprint = [v \in Views |-> None]
  /\ cached_html = [v \in Views |-> None]
  /\ cache_lock = [v \in Views |-> [holder |-> 0, waiters |-> <<>>]]
  /\ rd = [r \in Readers |-> IdleReader]
  /\ RunnerNew
  /\ NoWatch
  /\ NoRuntime
  /\ Registered
  /\ dev = TRUE
  /\ plugins = 0
  /\ apps = RegisteredViews
  /\ lpc = "idle"
  /\ lerr = None
  /\ starts = 0

NextDev ==
  \/ LifespanEnter
  \/ StartDev
  \/ EnterOriginal(TRUE)
  \/ \E k \in DOMAIN tasks : PipelineStart(k)
  \/ \E k \in DOMAIN tasks, ok \in BOOLEAN : BundleReturn(k, ok)
  \/ \E k \in DOMAIN tasks, v \in Views, f \in Files : BundleWrites(k, v, f)
  \/ \E k \in DOMAIN tasks : DoneCallback(k)
  \/ \E r \in Readers, v \in Views : ServedRead(r, v)
  \/ \E r \in Readers : FpClientExists(r)
  \/ \E r \in Readers : FpClientStat(r)
  \/ \E r \in Readers : FpServerExists(r)
  \/ \E r \in Readers : FpServerStat(r)
  \/ \E r \in Readers : FpCssExists(r)
  \/ \E r \in Readers : FpCssStat(r)
  \/ \E r \in Readers : AcquireLock(r)
  \/ \E r \in Readers : RenderClientExists(r)
  \/ \E r \in Readers : RenderClientRead(r)
  \/ \E r \in Readers : RenderServerExists(r)
  \/ \E r \in Readers : RenderServerRead(r)
  \/ \E r \in Readers : RenderRun(r)
  \/ \E r \in Readers : RenderCssExists(r)
  \/ \E r \in Readers : RenderCssRead(r)

SpecDev == InitDev /\ [][NextDev]_vars

\* ------------------------------------------- rebuilds in development
\* bundle(dev=True) builds a view again: the most a build can do at once is
\* to put all the artifacts of the view in place together.  Every file gets
\* the number of the build as its content.
BundleRebuilds(k, v) ==
  /\ Runnable(k)
  /\ tasks[k].kind = "pipeline"
  /\ tasks[k].st = "bundle"
  /\ tasks[k].dev
  /\ ~tasks[k].cancelReq
  /\ Events < MaxEvents
  /\ clock' = clock + 1
  /\ disk' = [disk EXCEPT ![v] =
                [f \in Files |->
                   IF f = "server" /\ ServerPath(v) = None
                     THEN Absent
                     ELSE [stat |-> clock + 1, kind |-> BuiltKind(f), ver |-> clock + 1]]]
  /\ UNCHANGED <<cache_html, ssr, server_path, cached_fingerprint, cached_html, cache_lock, rd>>
  /\ UNCHANGED <<lifeVars, regVars, pluginVars>>

NextRebuild ==
  \/ LifespanEnter
  \/ StartDev
  \/ EnterOriginal(TRUE)
  \/ \E k \in DOMAIN tasks : PipelineStart(k)
  \/ \E k \in DOMAIN tasks, ok \in BOOLEAN : BundleReturn(k, ok)
  \/ \E k \in DOMAIN tasks, v \in Views : BundleRebuilds(k, v)
  \/ \E k \in DOMAIN tasks : DoneCallback(k)
  \/ \E r \in Readers, v \in Views : ServedRead(r, v)
  \/ \E r \in Readers : FpClientExists(r)
  \/ \E r \in Readers : FpClientStat(r)
  \/ \E r \in Readers : FpServerExists(r)
  \/ \E r \in Readers : FpServerStat(r)
  \/ \E r \in Readers : FpCssExists(r)
  \/ \E r \in Readers : FpCssStat(r)
  \/ \E r \in Readers : AcquireLock(r)
  \/ \E r \in Readers : RenderClientExists(r)
  \/ \E r \in Readers : RenderClientRead(r)
  \/ \E r \in Readers : RenderServerExists(r)
  \/ \E r \in Readers : RenderServerRead(r)
  \/ \E r \in Readers : RenderRun(r)
  \/ \E r \in Readers : RenderCssExists(r)
  \/ \E r \in Readers : RenderCssRead(r)

SpecRebuild == InitDev /\ [][NextRebuild]_vars

\* ------------------------------------------- PostCSS.watch and the disk
\* One watch task, the files it polls, and the thread that stops or
\* cancels it.
InitWatch ==
  /\ CacheQuiet
  /\ RunnerNew
  /\ WatchNew
  /\ NoRuntime
  /\ Registered
  /\ dev = TRUE
  /\ plugins = 1
  /\ apps = {}
  /\ lpc = "idle"
  /\ lerr = None
  /\ starts = 0

WatchStep ==
  \/ \E found \in BOOLEAN : WatchResolveCli(found)
  \/ WatchLoop
  \/ WatchNext
  \/ WatchStat
  \/ WatchProcessExists
  \/ \E ok \in BOOLEAN : WatchSubprocess(ok)
  \/ WatchWrite
  \/ WatchRecord
  \/ WatchPrune
  \/ \E timeout \in BOOLEAN : WatchWake(timeout)
  \/ WatchCancelled

NextWatch ==
  \/ WatchStep
  \/ WatchSetStop
  \/ WatchCancel
  \/ \E f \in CssFiles : CssWrite(f)
  \/ \E f \in CssFiles : CssRemove(f)

SpecWatch == InitWatch /\ [][NextWatch]_vars

\* The event loop runs a coroutine that can run: every step of the watch
\* that stays possible is taken.  Nothing is assumed of the disk, of the
\* stop or of the cancellation.
FairWatch ==
  /\ WF_vars(\E found \in BOOLEAN : WatchResolveCli(found))
  /\ WF_vars(WatchLoop)
  /\ WF_vars(WatchNext)
  /\ WF_vars(WatchStat)
  /\ WF_vars(WatchProcessExists)
  /\ WF_vars(\E ok \in BOOLEAN : WatchSubprocess(ok))
  /\ WF_vars(WatchWrite)
  /\ WF_vars(WatchRecord)
  /\ WF_vars(WatchPrune)
  /\ WF_vars(\E timeout \in BOOLEAN : WatchWake(timeout))
  /\ WF_vars(WatchCancelled)

SpecWatchFair == InitWatch /\ [][NextWatch]_vars /\ FairWatch

\* ------------------------------------------------ a sequence of run() calls
InitBridge ==
  /\ CacheQuiet
  /\ RunnerNew
  /\ NoWatch
  /\ RuntimeNew
  /\ Registered
  /\ dev = FALSE
  /\ plugins = 0
  /\ apps = {}
  /\ lpc = "idle"
  /\ lerr = None
  /\ starts = 0

NextBridge == \E p \in Programs : Run(p)

SpecBridge == InitBridge /\ [][NextBridge]_vars

\* ------------------------------------------------- claims on the cache
Started(r) == rd[r].pc # "idle"
Done(r) == rd[r].pc = "done"
GotText(r) == Done(r) /\ rd[r].err = "none"
Failed(r) == Done(r) /\ rd[r].err # "none"
InRender(r) ==
  rd[r].pc \in {"r_client_exists", "r_client_read", "r_server_exists", "r_server_read",
                "r_run", "r_css_exists", "r_css_read"}

\* two reads of one view that overlap in time: neither had ended when the other began
Concurrent(r, q) ==
  /\ r # q /\ Started(r) /\ Started(q) /\ rd[r].view = rd[q].view
  /\ q \notin rd[r].after /\ r \notin rd[q].after

\* the disk is as it was when the (empty) cache was created
DiskUnchanged == clock = 1

C2_ServedUnderFreshFingerprint ==
  /\ [](\A r \in Readers :
          /\ (Done(r) /\ rd[r].src = "cache") =>
               /\ cache_html
               /\ rd[r].servedFp = rd[r].fp
               /\ rd[r].res # None
          /\ (InRender(r) /\ rd[r].phase = "locked") =>
               /\ cache_lock[rd[r].view].holder = r
               /\ ~CacheHit(rd[r].view, rd[r].fp))
  /\ [][\A v \in Views :
          (cached_fingerprint'[v] # cached_fingerprint[v] \/ cached_html'[v] # cached_html[v]) =>
            \E r \in Readers :
              /\ cache_lock[v].holder = r /\ InRender(r) /\ rd[r].view = v
              /\ rd'[r].pc = "done" /\ rd'[r].src = "render"
              /\ cached_fingerprint'[v] = rd[r].fp
              /\ cached_html'[v] = rd'[r].res
              /\ cached_html'[v] # None]_vars

\* a read rendered and cached the view, the disk changed, and a later read
\* re-rendered: the cache now holds the later read's fingerprint and text
C2_Witness ==
  \E r, q \in Readers :
    /\ cache_html /\ q \in rd[r].after
    /\ GotText(q) /\ rd[q].src = "render" /\ rd[q].w1 = 1
    /\ GotText(r) /\ rd[r].src = "render" /\ rd[r].w0 = 2
    /\ cached_html[rd[r].view] = rd[r].res
    /\ rd[r].res # rd[q].res

\* a read that began after another read of the same view had ended
Successive(q, r) ==
  /\ Done(q) /\ Done(r) /\ rd[q].view = rd[r].view /\ q \in rd[r].after

C4_RendersNeverOverlap ==
  cache_html =>
    \A r, q \in Readers :
      (r # q /\ rd[r].view = rd[q].view) => ~(InRender(r) /\ InRender(q))

\* one read is rendering while another read of the same view queues for the lock
C4_Witness ==
  /\ cache_html
  /\ \E r, q \in Readers :
       /\ rd[r].view = rd[q].view /\ InRender(r) /\ rd[q].pc = "lock"

\* --------------------------------------------- claims on the lifespan
\* The log of a production pipeline that ran to its end with n plugins: the
\* bundler called and returned, then each plugin's build hook called and
\* returned, in the configured order.
FullLog(n) ==
  [j \in 1..(2 * n + 2) |->
     Event(IF j <= 2 THEN "bundle" ELSE "build", (j + 1) \div 2 - 1, FALSE,
           IF j % 2 = 1 THEN "call" ELSE "ret")]

\* Every entry of the log is the entry of FullLog at its place, but for a
\* last entry that is the raise of the call before it.
InOrder(log) ==
  \A j \in 1..Len(log) :
    \/ j <= 2 * plugins + 2 /\ log[j] = FullLog(plugins)[j]
    \/ /\ j = Len(log)
       /\ j % 2 = 0
       /\ j <= 2 * plugins + 2
       /\ log[j] = [FullLog(plugins)[j] EXCEPT !.ph = "raise"]

Pipeline == Key(starts, 0)

Production == ~dev /\ apps # {}

Development == dev /\ apps # {}

\* C5: in production mode readiness is granted only after the bundler and
\* then every plugin build hook have returned successfully; the bundler is
\* invoked exactly once, before the first plugin hook, and the hooks run one
\* at a time in the configured order.
C5_ReadyAfterFullPipeline ==
  Production =>
    /\ \A k \in DOMAIN tasks : tasks[k].kind = "pipeline" /\ InOrder(tasks[k].log)
    /\ lpc \in {"enter_original", "ready"} =>
         /\ DOMAIN tasks = {Pipeline}
         /\ tasks[Pipeline].st = "done"
         /\ tasks[Pipeline].log = FullLog(plugins)

C5_Witness ==
  /\ Production
  /\ lpc = "ready"
  /\ plugins = NumPlugins
  /\ starts = 2

HasRaise(log) == \E j \in 1..Len(log) : log[j].ph = "raise"

\* C6: in production mode, when the bundler or a plugin build hook raises,
\* the lifespan fails with that error, is not ready, and no later hook of the
\* pipeline is invoked: the raise is the last entry of the log.
C6_FailedStartup ==
  Production =>
    \A k \in DOMAIN tasks :
      HasRaise(tasks[k].log) =>
        LET last == tasks[k].log[Len(tasks[k].log)] IN
        /\ k = Pipeline
        /\ last.ph = "raise"
        /\ ~HasRaise(SubSeq(tasks[k].log, 1, Len(tasks[k].log) - 1))
        /\ tasks[k].st = "failed"
        /\ lpc \in {"pipeline", "failed"}
        /\ lpc = "failed" => lerr = <<last.op, last.who>>

C6_Witness ==
  /\ Production
  /\ plugins = 2
  /\ lpc = "failed"
  /\ lerr = <<"build", 1>>
  /\ Len(tasks[Pipeline].log) = 4

Spawned == {k \in DOMAIN tasks : k[1] = starts}

\* C7: in development mode the lifespan goes on to readiness with exactly
\* one bundler task (bundle called with dev = TRUE) and exactly one watch
\* task per plugin spawned by this start, all watch tasks holding the one
\* stop event of the start; no task ever calls a plugin's build hook.
C7_DevStartSpawnsTasks ==
  Development =>
    /\ \A k \in DOMAIN tasks : \A j \in 1..Len(tasks[k].log) :
         /\ tasks[k].log[j].op # "build"
         /\ tasks[k].log[j].dev
         /\ tasks[k].log[j].op = "bundle" /\ tasks[k].log[j].ph = "call" => j = 1
    /\ lpc \in {"enter_original", "ready"} =>
         /\ Spawned = {Key(starts, i) : i \in 0..plugins}
         /\ bundle_task = Pipeline
         /\ tasks[Pipeline].kind = "pipeline" /\ tasks[Pipeline].dev
         /\ watcher_tasks = {Key(starts, i) : i \in 1..plugins}
         /\ plugins > 0 <=> stop_event # 0
         /\ \A i \in 1..plugins :
              /\ tasks[Key(starts, i)].kind = "watch"
              /\ tasks[Key(starts, i)].idx = i
              /\ tasks[Key(starts, i)].event = stop_event

\* Ready while the bundler has not even been called, or is still running.
C7_Witness ==
  /\ Development
  /\ lpc = "ready"
  /\ plugins = 2
  /\ tasks[Pipeline].st \in {"created", "bundle"}
  /\ \A i \in 1..plugins : tasks[Key(starts, i)].st = "watch"

\* C8: after a development lifespan has exited, its stop event is set, every
\* task is over, the tasks of the lifespan have been awaited, no error came
\* out of the shutdown, the worker's loop is closed and its thread joined.
C8_DevExitQuiescent ==
  Development /\ lpc = "exited" =>
    /\ plugins > 0 => stop_event # 0 /\ stop_event \in stopSet
    /\ \A k \in DOMAIN tasks : Finished(k)
    /\ \A k \in ShutdownTasks : k \in DOMAIN tasks /\ tasks[k].awaited
    /\ \A k \in watcher_tasks : tasks[k].event \in stopSet
    /\ lerr = None
    /\ ~raised
    /\ live = {}
    /\ rLoop = 0
    /\ rThread = 0

C8_Witness ==
  /\ Development
  /\ lpc = "exited"
  /\ plugins = 2
  /\ tasks[Pipeline].st = "cancelled"
  /\ tasks[Key(starts, 1)].st = "cancelled"
  /\ tasks[Key(starts, 2)].st = "done"

\* C10: over repeated starts and stops of one application, after every stop
\* no worker thread, loop or unfinished task is left; a start after a stop
\* makes a new thread and loop; and never is more than one worker alive.
C10_RepeatedStartStop ==
  /\ [](apps # {} =>
         /\ Cardinality(live) <= 1
         /\ lpc = "exited" =>
              /\ live = {}
              /\ rThread = 0 /\ rLoop = 0
              /\ \A k \in DOMAIN tasks : Finished(k))
  /\ [][apps # {} /\ lpc = "exited" /\ lpc' # "exited" =>
          /\ created' = created + 1
          /\ rThread' = created' /\ rLoop' = created'
          /\ live' = {created'}]_vars

C10_Witness ==
  /\ apps # {}
  /\ starts = 2
  /\ created = 2
  /\ lpc = "exited"
  /\ dev
  /\ plugins = 2

\* ------------------------------------ claims on _AsyncThreadRunner
StopCalled == Len(calls') = Len(calls) + 1 /\ calls'[Len(calls')] = "stop"

\* C9: stop() on a runner that was never started, or that a stop() has
\* already stopped, returns without raising and changes nothing.
C9_StopIdempotent ==
  [][StopCalled /\ (rLoop = 0 \/ rThread = 0) =>
       /\ ~raised'
       /\ lpc' = "client"
       /\ UNCHANGED <<rThread, rLoop, created, live, tasks>>]_vars

\* A stop() before any start, and later a stop() right after a stop().
C9_Witness ==
  /\ calls = <<"stop", "run", "stop", "stop">>
  /\ lpc = "client"
  /\ ~raised

\* ------------------------------------- claims on the background tasks
\* the tasks that are there before and after a step
Both == DOMAIN tasks \cap DOMAIN tasks'

\* C11: in development mode a background task that ended with an exception
\* other than a cancellation is handed to the logger exactly once, by its
\* done callback, and at the latest before the lifespan has exited; a task
\* that was cancelled or returned is never handed to the logger; and the
\* failure and its report leave every other task, the worker and the position
\* of the lifespan (its readiness) as they were.
C11_BackgroundFailureLogged ==
  /\ [](Development =>
         \A k \in DOMAIN tasks :
           /\ tasks[k].reported <= 1
           /\ tasks[k].reported = 1 => tasks[k].st = "failed" /\ tasks[k].cb = 2
           /\ (tasks[k].st = "failed" /\ tasks[k].cb = 2) => tasks[k].reported = 1
           /\ (lpc = "exited" /\ k \in ShutdownTasks /\ tasks[k].st = "failed") =>
                tasks[k].reported = 1)
  /\ [][Development =>
          \A k \in Both :
            (\/ tasks[k].st # "failed" /\ tasks'[k].st = "failed"
             \/ tasks'[k].reported # tasks[k].reported) =>
              /\ lpc' = lpc
              /\ live' = live /\ rLoop' = rLoop /\ rThread' = rThread
              /\ stopSet' = stopSet
              /\ \A j \in Both \ {k} : tasks'[j] = tasks[j]]_vars

\* Ready, the first watch task has failed and was reported, the bundler task
\* and the second watch task are still running.
C11_Witness ==
  /\ Development
  /\ lpc = "ready"
  /\ plugins = 2
  /\ tasks[Key(starts, 1)].st = "failed" /\ tasks[Key(starts, 1)].reported = 1
  /\ tasks[Key(starts, 2)].st = "watch"
  /\ tasks[Pipeline].st = "bundle"

\* C12: an application created with no registered view never starts a
\* worker and never creates a task, in production or in development mode and
\* whatever plugins are configured: the bundler, the build hooks and the watch
\* hooks are never called, and no stop event is made.
C12_NoViewsNoBuild ==
  apps = {} =>
    /\ DOMAIN tasks = {}
    /\ created = 0 /\ live = {} /\ rThread = 0 /\ rLoop = 0
    /\ stop_event = 0 /\ bundle_task = None /\ watcher_tasks = {}
    /\ lpc \notin {"start_dev", "pipeline", "shutdown_run", "shutdown_gather", "joining"}

\* Started twice and ready, in development mode with plugins configured.
C12_Witness ==
  /\ apps = {}
  /\ dev
  /\ plugins = NumPlugins
  /\ starts = 2
  /\ lpc = "ready"

\* ------------------------------------------------- claims on the registry
\* C13: after any sequence of tool() calls the registry holds at most one
\* Page per bundle path, exactly the paths registered successfully so far,
\* and the ssr flag of each is the effective flag (the ssr argument, else
\* Amber.ssr) of the latest successful registration of that path; a call that
\* raises leaves the registry as it was.
C13_OneViewPerPath ==
  /\ \A p, q \in apps : p.path = q.path => p = q
  /\ {p.path : p \in apps} = DOMAIN last_reg
  /\ \A p \in apps : p.ssr = last_reg[p.path]

\* Registered by directory with the default flag, then again by file name
\* with the other flag: one Page, with the later flag.
C13_Witness ==
  /\ reg_calls = 3
  /\ reg_err = "none"
  /\ Cardinality(apps) = 2
  /\ \E p \in apps : p.path = <<"apps", "a", "page.tsx">> /\ p.ssr # amber_ssr

\* ------------------------------------- further claims on the handler
\* C14: with cache_html false the cached fingerprint and the cached text of
\* every view stay unset, the lock is never held nor waited for, and a read
\* that has its fingerprint goes on to _render_resource_html: every text
\* returned was rendered by the read that returns it.
C14_NoCacheAlwaysRenders ==
  ~cache_html =>
    /\ \A v \in Views :
         /\ cached_fingerprint[v] = None
         /\ cached_html[v] = None
         /\ cache_lock[v] = [holder |-> 0, waiters |-> <<>>]
    /\ \A r \in Readers :
         /\ rd[r].pc # "lock"
         /\ rd[r].phase \in {"fast", "nocache"}
         /\ rd[r].src # "cache"
         /\ GotText(r) => rd[r].src = "render" /\ rd[r].rendered
         /\ (GotText(r) /\ ssr[rd[r].view]) => rd[r].runs = 1

\* Two successive reads of an SSR view on an unchanged disk: each rendered,
\* each called run, and nothing was stored.
C14_Witness ==
  /\ ~cache_html
  /\ DiskUnchanged
  /\ \E q, r \in Readers :
       /\ Successive(q, r) /\ GotText(q) /\ GotText(r)
       /\ rd[q].runs = 1 /\ rd[r].runs = 1
       /\ rd[q].res = rd[r].res
       /\ cached_html[rd[r].view] = None

\* read r has ended and the disk is as it was when r began: what is on the
\* disk now is what r saw
SawDisk(r) == Done(r) /\ rd[r].w0 = clock

\* the SSR output of view v is missing: no server path, or no file there
NoServerScript(v) == ServerPath(v) = None \/ ~Exists(v, "server")

\* C15: a read of a view whose client script is absent, or whose effective
\* ssr flag is set while its server script is absent (whether or not the
\* client script exists), fails with the missing-artifact error and returns
\* no text, also when a text is cached for the view.
C15_MissingArtifact ==
  \A r \in Readers :
    LET v == rd[r].view IN
    (SawDisk(r) /\ (~Exists(v, "client") \/ (ssr[v] /\ NoServerScript(v)))) =>
      /\ rd[r].err = "MissingArtifact"
      /\ rd[r].res = None
      /\ rd[r].src = "none"

\* An SSR view with a server path: the client script is there, the server
\* script is not, and the read has failed.
C15_Witness ==
  \E r \in Readers :
    LET v == rd[r].view IN
    /\ SawDisk(r) /\ DiskUnchanged
    /\ ssr[v] /\ ServerPath(v) # None
    /\ disk[v]["client"].kind = "js" /\ ~Exists(v, "server")
    /\ rd[r].err = "MissingArtifact"

\* the fingerprint _compute_fingerprint gives for view v on the disk as it is
DiskFingerprint(v) ==
  <<disk[v]["client"].stat,
    IF ServerPath(v) = None THEN 0 ELSE disk[v]["server"].stat,
    disk[v]["css"].stat>>

\* view v has a client script and a server script, and running it raises
Throwing(v) ==
  /\ ServerPath(v) # None
  /\ disk[v]["client"].kind = "js"
  /\ disk[v]["server"].kind = "throws"

\* view v has a client script and a server script that gives markup
Rendering(v) ==
  /\ ServerPath(v) # None
  /\ disk[v]["client"].kind = "js"
  /\ disk[v]["server"].kind = "markup"

\* C16 as stated: a read while the server script is one that throws fails
\* with the execution error and returns no text, cached or rendered without
\* SSR output; a read while the script is one that gives markup succeeds.
C16_ThrowingScriptOriginal ==
  \A r \in Readers :
    LET v == rd[r].view IN
    /\ (SawDisk(r) /\ Throwing(v)) => rd[r].err = "ExecutionError" /\ rd[r].res = None
    /\ (SawDisk(r) /\ Rendering(v)) => GotText(r)

\* C16 amended: a read while the server script is one that throws fails with
\* the execution error and returns no text, unless the text cached for the
\* view is stored under the very fingerprint the disk has now (the script
\* was overwritten with its modification time and size unchanged), and then
\* the read returns that cached text; a read while the script is one that
\* gives markup succeeds, and a text it renders holds that script's markup.
C16_ThrowingScript ==
  \A r \in Readers :
    LET v == rd[r].view IN
    /\ (SawDisk(r) /\ Throwing(v)) =>
         \/ rd[r].err = "ExecutionError" /\ rd[r].res = None
         \/ /\ rd[r].src = "cache"
            /\ rd[r].servedFp = DiskFingerprint(v)
            /\ rd[r].runs = 0
    /\ (SawDisk(r) /\ Rendering(v)) =>
         /\ GotText(r)
         /\ rd[r].src = "render" => rd[r].res[2] = disk[v]["server"].ver

\* A read rendered and cached the view, the server script was overwritten
\* (new modification time) by one that throws, and the next read failed with
\* the execution error while the earlier text is still cached.
C16_Witness ==
  \E q, r \in Readers :
    LET v == rd[r].view IN
    /\ Successive(q, r) /\ GotText(q) /\ rd[q].src = "render"
    /\ SawDisk(r) /\ Throwing(v)
    /\ cached_fingerprint[v] # DiskFingerprint(v)
    /\ rd[r].err = "ExecutionError"
    /\ cached_html[v] = rd[q].res

\* a sequence as the set of its entries
Range(q) == {q[i] : i \in 1..Len(q)}

\* read r took no step of the slow path before it ended
FastHit(r) == Done(r) /\ rd[r].src = "cache" /\ rd[r].phase = "fast"

\* C17: every view has a lock of its own.  A lock is held and waited for by
\* reads of its view only; a read begins to wait only when the lock of its
\* own view is held or already waited for, whatever the state of the other
\* locks; and a read that finds its fingerprint in the cache on the fast path
\* returns leaving every lock as it is, also while the lock of its view is
\* held.
C17_LockPerView ==
  /\ [](\A v \in DOMAIN cache_lock :
          /\ cache_lock[v].holder # 0 =>
               rd[cache_lock[v].holder].view = v /\ rd[cache_lock[v].holder].phase = "locked"
          /\ \A r \in Range(cache_lock[v].waiters) : rd[r].view = v /\ rd[r].pc = "lock"
          /\ \A r \in Readers :
               (rd[r].pc = "lock" /\ rd[r].view = v) => r \in Range(cache_lock[v].waiters))
  /\ [][\A r \in Readers :
          /\ (rd[r].pc # "lock" /\ rd'[r].pc = "lock") =>
               \/ cache_lock[rd'[r].view].holder # 0
               \/ cache_lock[rd'[r].view].waiters # <<>>
          /\ (~Done(r) /\ rd[r].phase = "fast" /\ rd'[r].pc = "done" /\ rd'[r].src = "cache") =>
               /\ cache_lock' = cache_lock
               /\ rd'[r].phase = "fast"]_vars

\* A read of view a and a read of view b are both inside
\* _render_resource_html, each holding the lock of its view, while another
\* read of view a waits for the lock of a.
C17_Witness ==
  \E q, p, r \in Readers :
    /\ rd[q].view = "a" /\ InRender(q) /\ cache_lock["a"].holder = q
    /\ rd[p].view = "b" /\ InRender(p) /\ cache_lock["b"].holder = p
    /\ rd[r].view = "a" /\ rd[r].pc = "lock"

\* A read of view a was served on the fast path while another read of a held
\* the lock, recomputing its fingerprint.
FastHitBesideHolder ==
  \E q, r \in Readers :
    /\ q # r /\ rd[q].view = "a" /\ rd[r].view = "a"
    /\ FastHit(r)
    /\ cache_lock["a"].holder = q /\ q \notin rd[r].after
    /\ rd[q].pc \in {"fp_client_exists", "fp_client_stat", "fp_server_exists",
                     "fp_server_stat", "fp_css_exists", "fp_css_stat"}

\* ------------------------------------ claims on the development server
\* every artifact a render of v needs is on disk
Built(v) ==
  /\ Exists(v, "client")
  /\ ssr[v] => (ServerPath(v) # None /\ Exists(v, "server"))

\* C18: in development a read that began before anything was built waits
\* for the artifacts and returns a render; it never fails for a missing
\* artifact.  core.py:320-323 raises at once, so this does not hold.
C18_DevReadWaitsOriginal ==
  Development =>
    \A r \in Readers : (Done(r) /\ rd[r].w0 = 1) => rd[r].err # "MissingArtifact"

\* What core.Amber does instead: in development its handler does not wait
\* for the bundler (the handler of amber.py does, core.py does not).  A read that finds the client script missing ends in that very
\* step with the missing-artifact error, and returns no text; a read that
\* ran while the artifacts were missing has failed; a read that ran while
\* the artifacts of its view were all there returns a render.
C18_DevReadFailsAtOnce ==
  /\ [](Development =>
          \A r \in Readers :
            LET v == rd[r].view IN
            /\ (SawDisk(r) /\ ~Built(v)) =>
                  rd[r].err = "MissingArtifact" /\ rd[r].res = None
            /\ (SawDisk(r) /\ Built(v)) => GotText(r))
  /\ [][Development =>
          \A r \in Readers :
            (/\ rd[r].pc = "fp_client_exists"
             /\ ~Exists(rd[r].view, "client")
             /\ rd'[r] # rd[r]) =>
               /\ rd'[r].pc = "done"
               /\ rd'[r].err = "MissingArtifact"
               /\ rd'[r].res = None]_vars

\* The development server is ready and bundle(dev=True) is still running: a
\* read that began before anything was written has failed, and a read that
\* began after the bundler wrote the client script has returned a render.
C18_Witness ==
  /\ Development /\ lpc = "ready"
  /\ Pipeline \in DOMAIN tasks /\ tasks[Pipeline].st = "bundle"
  /\ \E q, r \in Readers :
       /\ Done(q) /\ rd[q].w0 = 1 /\ rd[q].err = "MissingArtifact"
       /\ Done(r) /\ q \in rd[r].after /\ rd[r].view = rd[q].view
       /\ GotText(r) /\ rd[r].src = "render"

\* C19: a failed background build in development touches no cache entry.  The
\* step in which a background task fails, and the step in which the failure
\* is logged, leave every view's cached fingerprint and text, the lock, the
\* disk and every read as they are; and of two successive reads of a view
\* with its artifacts unchanged from the start of the first to the end of the
\* second, the second returns the text the first returned, whether or not a
\* build has failed meanwhile.
C19_FailedRebuildKeepsCache ==
  /\ [][Development =>
          \A k \in Both :
            (\/ tasks[k].st # "failed" /\ tasks'[k].st = "failed"
             \/ tasks[k].reported # tasks'[k].reported) =>
               UNCHANGED <<cached_fingerprint, cached_html, cache_lock, disk, clock, rd>>]_vars
  /\ [](Development =>
          \A q, r \in Readers :
            (Successive(q, r) /\ GotText(q) /\ rd[q].w0 = rd[r].w1) =>
              /\ GotText(r)
              /\ rd[r].res = rd[q].res
              /\ rd[r].runs = 0)

\* A read rendered the view and cached the text while bundle(dev=True) was
\* running; the build then failed and the failure was logged; a read begun
\* after that, the artifacts unchanged, was served the cached text.
C19_Witness ==
  /\ Development /\ lpc = "ready"
  /\ Pipeline \in DOMAIN tasks
  /\ tasks[Pipeline].st = "failed" /\ tasks[Pipeline].reported = 1
  /\ \E q, r \in Readers :
       /\ Successive(q, r) /\ rd[q].w0 = rd[r].w1
       /\ ~rd[q].bgFailed /\ GotText(q) /\ rd[q].src = "render"
       /\ rd[r].bgFailed /\ GotText(r) /\ rd[r].src = "cache"
       /\ rd[r].res = rd[q].res /\ cached_html[rd[r].view] = rd[r].res

\* ------------------------------------------------ claims on SSR switched off
\* the view's Page has the server path PageServer gives it
LayoutOf(v) == server_path[v] = PageServer(ssr[v])

SsrOffRunsScript ==
  \E r \in Readers :
    LET v == rd[r].view IN
    /\ ~ssr[v] /\ server_path[v] # None
    /\ GotText(r) /\ rd[r].runs = 1 /\ rd[r].res[2] # 0

\* ------------------------------------------- claims on what tool() rejects
\* the page argument as the caller wrote it, segment by segment
Absolute(raw) == raw # <<>> /\ raw[1] = "/"

Traversal(raw) == \E i \in 1..Len(raw) : raw[i] = ".."

RolePrefix(raw) == PathParts(raw) # <<>> /\ PathParts(raw)[1] = "apps"

\* the last part has an extension: the argument names a file
NamesFile(raw) == Suffix(Name(PathParts(raw))) # ""

\* the file the argument names is not page.tsx or page.jsx inside a directory
NotAPage(raw) ==
  LET page == PathParts(raw) IN
  \/ NamesFile(raw) /\ (Name(page) \notin {"page.tsx", "page.jsx"} \/ Len(page) < 2)
  \/ page = <<>>

Malformed(raw) == Absolute(raw) \/ Traversal(raw) \/ RolePrefix(raw) \/ NotAPage(raw)

\* the files a well-formed argument stands for
Wanted(raw) ==
  LET page == PathParts(raw) IN
  IF NamesFile(raw) THEN {<<"apps">> \o page}
  ELSE {<<"apps">> \o page \o <<"page.tsx">>, <<"apps">> \o page \o <<"page.jsx">>}

SourceDirs == {SubSeq(f, 2, Len(f) - 1) : f \in SourceFiles}

\* the argument is the plain relative path of a directory of views
BareDirectory(raw) == raw \in SourceDirs

\* the call just made resolved raw to the file name and registered it
ResolvedTo(raw, name) ==
  LET path == <<"apps">> \o raw \o <<name>> IN
  /\ reg_err' = "none"
  /\ \E p \in apps' : p.path = path
  /\ \A p \in apps' \ apps : p.path = path
  /\ decorator' = <<Uri(raw \o <<name>>)>>

\* what C25 says of a call of tool() with the directory raw
DirectoryConvention(raw) ==
  LET tsx == <<"apps">> \o raw \o <<"page.tsx">>
      jsx == <<"apps">> \o raw \o <<"page.jsx">> IN
  IF tsx \in views_dir THEN ResolvedTo(raw, "page.tsx")
  ELSE IF jsx \in views_dir THEN ResolvedTo(raw, "page.jsx")
  ELSE reg_err' = "FileNotFoundError" /\ apps' = apps

\* C25: a call of tool() with a bare directory registers <dir>/page.tsx if
\* that file exists, else <dir>/page.jsx if that exists, else raises
\* FileNotFoundError.  It does not hold for a directory whose name has an
\* extension: core.py:190 takes the argument for a file and raises ValueError.
C25_BareDirectoryOriginal ==
  [][(reg_calls' # reg_calls /\ BareDirectory(reg_page')) =>
       DirectoryConvention(reg_page')]_vars

\* The convention holds for every directory whose name has no extension.
C25_SuffixlessDirectory ==
  [][(reg_calls' # reg_calls /\ BareDirectory(reg_page') /\ ~NamesFile(reg_page')) =>
       DirectoryConvention(reg_page')]_vars

\* Both a/page.tsx and a/page.jsx exist and tool("a") registered page.tsx;
\* and tool("c.d"), c.d/page.tsx being there, raised ValueError.
C25_Witness ==
  /\ {<<"apps", "a", "page.tsx">>, <<"apps", "a", "page.jsx">>,
       <<"apps", "c.d", "page.tsx">>} \subseteq views_dir
  /\ reg_calls = 2
  /\ apps = {Page(<<"apps", "a", "page.tsx">>, amber_ssr)}
  /\ reg_page = <<"c.d">>
  /\ reg_err = "ValueError"

\* tool("b") registered b/page.jsx, there being no b/page.tsx.
DirectoryFallsBackToJsx ==
  /\ reg_page = <<"b">>
  /\ reg_err = "none"
  /\ \E p \in apps : p.path = <<"apps", "b", "page.jsx">>

\* ------------------------------------------ claims on the end of a stop
\* the finally of a development lifespan has begun and has not returned
Stopping == Development /\ lpc \in {"shutdown_run", "shutdown_gather", "stop_call", "joining"}

\* C26: the exit of a development lifespan completes.  Once its finally has
\* begun, the lifespan has eventually exited, with every task over and the
\* worker's thread joined; the thread of the lifespan, which is not the
\* worker, waits for the worker only while a task or a callback is left to
\* run there.
C26_DevStopCompletes ==
  /\ Stopping ~> (lpc = "exited" /\ live = {} /\ \A k \in DOMAIN tasks : Finished(k))
  /\ [](Stopping /\ lpc = "shutdown_gather" /\ rLoop \in live
         /\ (\A k \in ShutdownTasks : Finished(k) /\ ~CallbackDue(k))
           => ENABLED ShutdownGathered)
  /\ [](Stopping /\ lpc = "joining" /\ Quiet(rLoop) => ENABLED LifespanJoined)

\* A development lifespan with two plugins has exited: the bundler and one
\* watch were cancelled while running, the other watch was cancelled before
\* its first step.
C26_Witness ==
  /\ Development /\ lpc = "exited" /\ plugins = 2
  /\ tasks[Pipeline].st = "cancelled" /\ tasks[Pipeline].log # <<>>
  /\ tasks[Key(starts, 1)].st = "cancelled" /\ tasks[Key(starts, 1)].log # <<>>
  /\ tasks[Key(starts, 2)].st = "cancelled" /\ tasks[Key(starts, 2)].log = <<>>
  /\ \A k \in ShutdownTasks : tasks[k].awaited

\* -------------------------------------- claims on the bundler invocations
\* the calls of bundle() that have begun and are not over
Bundling == {k \in DOMAIN tasks : tasks[k].kind = "pipeline" /\ tasks[k].st = "bundle"}

\* C27: the calls of bundle() of one application never overlap: at most one
\* is running at any time, and one begins only when every earlier one has
\* returned, raised, or been cancelled.  It holds as long as every start is
\* followed by a stop; a development start that fails after _start_dev leaves
\* its bundle() running, and the next start calls bundle() beside it.
C27_BundlerSerial ==
  /\ [](Cardinality(Bundling) <= 1)
  /\ [][\A k \in Both :
          (tasks[k].st = "created" /\ tasks'[k].st = "bundle") =>
            \A j \in DOMAIN tasks : (j # k /\ tasks[j].kind = "pipeline") => Finished(j)]_vars

\* The second start of a development application is ready and its bundle()
\* is running, and so is still the bundle() of the first start, whose wrapped
\* lifespan had failed to start.
C27_Witness ==
  /\ Development /\ starts = 2 /\ lpc = "ready"
  /\ Bundling = {Key(1, 0), Key(2, 0)}
  /\ ~tasks[Key(1, 0)].cancelReq
  /\ bundle_task = Key(2, 0)

\* --------------------------------------- claims on failures in PostCSS.watch
\* the steps of the watch that handle one file of a pass
PerFile == {"stat", "process", "subprocess", "write", "record"}

\* C28: PostCSS.watch survives per-file failures: while it handles one file
\* of a pass, whether the file is gone or the CSS tool reports an error, the
\* watch does not end with an exception; it goes on with the pass.
C28_WatchSurvivesFileFailures ==
  [][watch.pc \in PerFile => watch'.pc # "failed"]_vars

\* What PostCSS.watch does survive: a file that is gone at the stat, at the
\* start of its processing or at the recording is passed over and forgotten.
C28_WatchSurvivesRemoval ==
  [][(/\ watch.pc \in {"stat", "process", "record"}
      /\ css[watch.cur].mtime = 0
      /\ watch' # watch
      /\ watch'.pc # "cancelled")
     => watch'.pc = "next" /\ watch'.known[watch.cur] = 0]_vars

\* the CSS tool has reported an error for a file, in a pass that had another
\* file left, and no stop was asked for
C28_Witness ==
  /\ watch.pc = "failed"
  /\ watch.exc = "PostCSSError"
  /\ watch.cur = "x.css"
  /\ watch.todo = <<"y.css">>
  /\ ~watch_stop
  /\ ~watch_cancel

\* a file was removed between the scan and its processing, and the watch
\* went on to the next file
RemovalSurvived ==
  /\ watch.pc = "stat"
  /\ watch.cur = "y.css"
  /\ watch.processed["x.css"] = 1
  /\ watch.known["x.css"] = 0
  /\ css["x.css"].mtime = 0

\* ------------------------------------------ claims on the end of the watch
\* C29: PostCSS.watch terminates on the stop signal: once the stop signal
\* is set no further pass begins and no poll interval is waited out, and the
\* watch ends; a cancellation delivered to the watch ends it with the
\* cancellation, whatever step it was at.
C29_WatchStops ==
  /\ watch_stop ~> WatchOver
  /\ watch_cancel ~> watch.pc = "cancelled"
  /\ [][watch_stop => watch'.passes = watch.passes]_vars
  /\ [][watch_cancel /\ watch' # watch => watch'.pc = "cancelled"]_vars
  /\ [](watch.timeouts = 0)

\* the stop signal was set while a pass had processed a file, and the watch
\* has returned without another pass
C29_Witness ==
  /\ watch_stop
  /\ ~watch_cancel
  /\ watch.pc = "returned"
  /\ watch.passes = 1
  /\ watch.processed["x.css"] = 1

\* a cancellation reached the watch while postcss-cli was running
CancelledInSubprocess ==
  /\ watch.pc = "cancelled"
  /\ watch.cur = "x.css"
  /\ watch.processed["x.css"] = 1
  /\ watch.known["x.css"] = 0
  /\ css["x.css"].mtime = 1 + css["x.css"].writes

\* ------------------------------------- claims on what the watch processes
\* C30: in each pass PostCSS.watch processes a file exactly when the file
\* is there and its modification time differs from the recorded one (none
\* recorded counts as different); the time recorded after a processing is the
\* one the processing left, so the rewrite is not taken for a change; and
\* no file was processed more often than it was written by somebody else.
C30_ProcessedWhenChanged ==
  /\ [][(watch.pc = "stat" /\ watch' # watch /\ watch'.pc # "cancelled")
        => (watch'.pc = "process"
              <=> (/\ css[watch.cur].mtime # 0
                   /\ watch.known[watch.cur] # css[watch.cur].mtime))]_vars
  /\ [][(/\ watch.pc = "record"
         /\ watch' # watch
         /\ watch'.pc # "cancelled"
         /\ css[watch.cur].mtime # 0)
        => watch'.known[watch.cur] = css[watch.cur].mtime]_vars
  /\ [](\A f \in CssFiles : watch.processed[f] <= css[f].writes)

\* in the second pass x.css, processed in the first and left alone since,
\* was looked at and passed over
C30_Witness ==
  /\ watch.passes = 2
  /\ watch.pc = "next"
  /\ watch.cur = "x.css"
  /\ watch.processed["x.css"] = 1
  /\ css["x.css"].writes = 1
  /\ watch.known["x.css"] = css["x.css"].mtime
  /\ watch.current_mtime = css["x.css"].mtime

\* x.css was written again after its processing and is processed again
ChangedProcessedAgain ==
  /\ watch.passes = 2
  /\ watch.pc = "process"
  /\ watch.cur = "x.css"
  /\ watch.processed["x.css"] = 2
  /\ css["x.css"].writes = 2

\* ----------------------------------------------------- claims on run()
\* what a program gives when it is the only one ever run
Alone(p) == Outcome(Execute(p, NewContext))

AfterCapture ==
  /\ Len(runs) = 2
  /\ runs[1].program[1] = "capture"
  /\ runs[2] = [program |-> <<"expr", <<"num", 4, 2>> >>, outcome |-> <<"ok", <<"int", 2>> >>]

AfterFailures ==
  /\ Len(runs) = 2
  /\ runs[1].outcome[1] \in {"ExecutionError", "UnsupportedValueError"}
  /\ runs[2] = [program |-> <<"expr", <<"num", 3, 1>> >>, outcome |-> <<"ok", <<"int", 3>> >>]

\* C22: within one call of run, a program that used the capture
\* side-channel returns the captured string, whatever its completion value;
\* a program that has a completion value and captured nothing returns the
\* conversion of that value.
C22_CaptureWins ==
  \A i \in DOMAIN runs :
    LET p == runs[i].program IN
    /\ p[1] = "capture" => runs[i].outcome = <<"ok", <<"str", p[2]>> >>
    /\ p[1] = "expr" => runs[i].outcome = Convert(p[2])

\* a program captured a string and completed with a number, another
\* captured and completed with undefined; both returned the string
C22_Witness ==
  /\ Len(runs) = 2
  /\ runs[1].program = <<"capture", "<div>ok</div>", <<"num", 4, 2>> >>
  /\ runs[2].program = <<"capture", "<div>ok</div>", <<"undefined">> >>
  /\ runs[1].outcome = <<"ok", <<"str", "<div>ok</div>">> >>
  /\ runs[2].outcome = runs[1].outcome

\* the kind of result each kind of script value has; "none" is left for
\* the values without one
KindOf(v) ==
  CASE v[1] = "bool" -> "bool"
    [] v[1] = "num" -> IF \E n \in 0..v[2] : n * v[3] = v[2] THEN "int" ELSE "float"
    [] v[1] = "str" -> "str"
    [] v[1] = "array" -> "list"
    [] v[1] = "object" -> "dict"
    [] v[1] = "null" -> "none"
    [] OTHER -> "unsupported"

RECURSIVE IsResultOf(_, _)

\* r is a result of one of the seven kinds for the script value v, element
\* by element
IsResultOf(r, v) ==
  /\ r[1] = KindOf(v)
  /\ CASE r[1] = "list" ->
            /\ Len(r[2]) = Len(v[2])
            /\ \A k \in DOMAIN v[2] : IsResultOf(r[2][k], v[2][k])
       [] r[1] = "dict" ->
            /\ Len(r[2]) = Len(v[2])
            /\ \A k \in DOMAIN v[2] :
                 r[2][k][1] = v[2][k][1] /\ IsResultOf(r[2][k][2], v[2][k][2])
       [] r[1] = "int" -> r[2] * v[3] = v[2]
       [] r[1] = "float" -> r[2] = v[2] /\ r[3] = v[3]
       [] r[1] = "none" -> TRUE
       [] r[1] \in {"bool", "str"} -> r[2] = v[2]
       [] OTHER -> FALSE

\* C23: run returns a value of one of the seven kinds, following the
\* conversion rules (boolean; integral number to integer; other finite
\* number to float; string; array to sequence and plain object to mapping,
\* element by element, empty ones too; null to null), and fails with the
\* unsupported-value error for undefined, Symbol, BigInt, a Promise, NaN
\* and the infinities.
C23_SevenKinds ==
  \A i \in DOMAIN runs :
    LET p == runs[i].program IN
    p[1] = "expr" =>
      IF KindOf(p[2]) = "unsupported"
        THEN runs[i].outcome = <<"UnsupportedValueError">>
        ELSE runs[i].outcome[1] = "ok" /\ IsResultOf(runs[i].outcome[2], p[2])

\* a nested object was converted to a mapping holding a sequence, and
\* undefined was refused
C23_Witness ==
  /\ Len(runs) = 2
  /\ runs[1].program[1] = "expr"
  /\ runs[1].program[2][1] = "object"
  /\ runs[1].outcome =
       <<"ok", <<"dict", << <<"ok", <<"bool", TRUE>> >>,
                            <<"values", <<"list", << <<"int", 3>>,
                                                     <<"dict", << <<"name", <<"str", "x">> >> >> >>,
                                                     <<"none">> >> >> >> >> >> >>
  /\ runs[2].program = <<"expr", <<"undefined">> >>
  /\ runs[2].outcome = <<"UnsupportedValueError">>

\* the integral 4/2 became the integer 2 and 3/2 stayed a float
IntegralAndNot ==
  /\ Len(runs) = 2
  /\ runs[1] = [program |-> <<"expr", <<"num", 4, 2>> >>, outcome |-> <<"ok", <<"int", 2>> >>]
  /\ runs[2] = [program |-> <<"expr", <<"num", 3, 2>> >>,
                outcome |-> <<"ok", <<"float", 3, 2>> >>]

\* ------------------------------------- claims on the missing-artifact error
\* the read r ends in this step with the missing-artifact error
RaisesMissing(r) ==
  /\ rd[r].pc \notin {"idle", "done"}
  /\ rd'[r].pc = "done"
  /\ rd'[r].err = "MissingArtifact"

\* a file the read of v requires is not there
RequiredAbsent(v) == ~Exists(v, "client") \/ (ssr[v] /\ ~Exists(v, "server"))

\* C37: a read raises the missing-artifact error only when a required
\* artifact is absent at that time: the client script, or with effective ssr
\* the server script.  An empty client script and a script that yields empty
\* markup are no reason for it.  core.py:357 and 366 test the text read, not
\* the file, so this does not hold.
C37_MissingOnlyWhenAbsent ==
  [][\A r \in Readers : RaisesMissing(r) => RequiredAbsent(rd[r].view)]_vars

\* What core.Amber does instead: the error is raised when a required file
\* is absent, when the client script read is empty, or when ssr is effective
\* and run() gave no markup.
C37_MissingWhenAbsentOrEmpty ==
  [][\A r \in Readers :
       RaisesMissing(r) =>
         \/ RequiredAbsent(rd[r].view)
         \/ rd[r].pc = "r_client_read" /\ disk[rd[r].view]["client"].kind = "empty"
         \/ rd[r].pc = "r_run" /\ rd[r].srv = "blank" /\ ssr[rd[r].view]]_vars

\* a read has failed with the missing-artifact error while the client
\* script, which is empty, was there all along
C37_Witness ==
  \E r \in Readers :
    /\ rd[r].pc = "done"
    /\ rd[r].err = "MissingArtifact"
    /\ rd[r].rendered
    /\ rd[r].w0 = rd[r].w1
    /\ disk[rd[r].view]["client"].kind = "empty"
    /\ ~ssr[rd[r].view]

\* the same with a server script that ran and gave empty markup
BlankMarkupMissing ==
  \E r \in Readers :
    /\ rd[r].pc = "done"
    /\ rd[r].err = "MissingArtifact"
    /\ rd[r].runs = 1
    /\ rd[r].w0 = rd[r].w1
    /\ disk[rd[r].view]["client"].kind = "js"
    /\ disk[rd[r].view]["server"].kind = "blank"
    /\ ssr[rd[r].view]

\* ------------------------------------------------ claims on the cache entry
\* C34: a view's cached fingerprint and cached text are both unset or both
\* set; they change only together, in a step of the read that holds the
\* view's lock and has rendered under it; and no part of the stored text is
\* older than the file state its fingerprint names, the contents having been
\* read after the fingerprint was computed.
C34_CacheEntry ==
  /\ [](\A v \in Views :
          /\ (cached_fingerprint[v] = None) <=> (cached_html[v] = None)
          /\ cached_html[v] # None =>
               \A i \in 1..3 :
                 cached_html[v][i] # 0 => cached_html[v][i] >= cached_fingerprint[v][i])
  /\ [][\A v \in Views :
          (cached_fingerprint'[v] # cached_fingerprint[v] \/ cached_html'[v] # cached_html[v]) =>
            /\ cached_fingerprint'[v] # None
            /\ cached_html'[v] # None
            /\ cache_lock[v].holder # 0
            /\ rd[cache_lock[v].holder].view = v
            /\ rd[cache_lock[v].holder].phase = "locked"
            /\ rd[cache_lock[v].holder].rendered]_vars

\* the entry of a view is set, and the client script in its text was written
\* after the state of the file that the fingerprint names
C34_Witness ==
  \E v \in Views :
    /\ cache_html
    /\ cached_fingerprint[v] # None
    /\ cached_html[v] # None
    /\ cached_html[v][1] > cached_fingerprint[v][1]
    /\ cache_lock[v].holder = 0

\* ---------------------------------- claims on reads that fail under the lock
\* the read r ends in this step with an error, holding the lock of its view
FailsLocked(r) ==
  /\ rd[r].pc \notin {"idle", "done", "lock"}
  /\ rd[r].phase = "locked"
  /\ rd'[r].pc = "done"
  /\ rd'[r].err # "none"

\* C35: a read that fails in the locked slow path releases the lock in the
\* step in which it fails and leaves the waiters and the view's cached
\* fingerprint and text as they are; while a read holds the lock and keeps it
\* the cache entry does not change; and no lock is ever held by a read that
\* has ended.
C35_FailedReadLeavesNoTrace ==
  /\ [][\A r \in Readers :
          LET v == rd[r].view IN
          /\ FailsLocked(r) =>
               /\ cache_lock[v].holder = r
               /\ cache_lock'[v].holder = 0
               /\ cache_lock'[v].waiters = cache_lock[v].waiters
               /\ cached_fingerprint'[v] = cached_fingerprint[v]
               /\ cached_html'[v] = cached_html[v]
          /\ (rd[r].pc \notin {"idle", "done"} /\ cache_lock[v].holder = r
                /\ cache_lock'[v].holder = r) =>
               /\ cached_fingerprint'[v] = cached_fingerprint[v]
               /\ cached_html'[v] = cached_html[v]]_vars
  /\ [](\A v \in Views :
          cache_lock[v].holder # 0 =>
            /\ rd[cache_lock[v].holder].pc \notin {"idle", "done"}
            /\ rd[cache_lock[v].holder].view = v)

\* a read failed under the lock with the execution error; a read that
\* began after it took the lock, rendered and returned text
C35_Witness ==
  \E q, r \in Readers :
    /\ cache_html
    /\ q \in rd[r].after
    /\ rd[q].pc = "done" /\ rd[q].err = "ExecutionError" /\ rd[q].rendered
    /\ rd[r].pc = "done" /\ rd[r].err = "none" /\ rd[r].src = "render"
    /\ rd[r].view = rd[q].view
    /\ cached_html[rd[r].view] = rd[r].res

\* a read failed under the lock for a missing artifact and the text cached
\* before it is still there
MissingKeepsEntry ==
  \E q, r \in Readers :
    /\ cache_html
    /\ q \in rd[r].after
    /\ rd[q].pc = "done" /\ rd[q].err = "none" /\ rd[q].src = "render"
    /\ rd[r].pc = "done" /\ rd[r].err = "MissingArtifact"
    /\ rd[r].view = rd[q].view
    /\ cached_html[rd[r].view] = rd[q].res
    /\ cache_lock[rd[r].view].holder = 0

\* ------------------------------------------ claims on the build generations
\* the parts of a text, client script, markup and stylesheet, come from one
\* build
OneGeneration(text) ==
  \A i, j \in 1..3 : (text[i] # 0 /\ text[j] # 0) => text[i] = text[j]

\* C33: every text a read returns, and every text in the cache, is made of
\* artifacts of one build, also when a rebuild runs during the read.  The
\* three files are read at three awaits (core.py:355, 363, 370) and nothing
\* holds a rebuild off between them, so this does not hold.
C33_SingleGeneration ==
  /\ \A r \in Readers : GotText(r) => OneGeneration(rd[r].res)
  /\ \A v \in Views : cached_html[v] # None => OneGeneration(cached_html[v])

\* What core.Amber gives: a text rendered by a read during which nothing was
\* written is made of the artifacts of one build.
C33_QuietReadOneGeneration ==
  \A r \in Readers :
    (GotText(r) /\ rd[r].src = "render" /\ rd[r].w0 = rd[r].w1) => OneGeneration(rd[r].res)

\* a read returned, and stored in the cache, the client script of the first
\* build with the stylesheet of the second
C33_Witness ==
  \E r \in Readers :
    /\ GotText(r)
    /\ rd[r].src = "render"
    /\ rd[r].res[1] = 2
    /\ rd[r].res[3] = 3
    /\ cached_html[rd[r].view] = rd[r].res
    /\ disk[rd[r].view]["client"].ver = 3

\* ------------------------------------------------- claims on the addresses
\* the ui:// address tool() gives the view whose bundle path is path
UriOf(path) == Uri(Tail(path))

\* C36: no two views of the registry share a ui:// address.  The address
\* is made of the directory alone (core.py:215), so page.tsx and page.jsx of
\* one directory, which are two views of the registry, get the same one:
\* this does not hold.
C36_DistinctUris ==
  \A p, q \in apps : p.path # q.path => UriOf(p.path) # UriOf(q.path)

\* What core.Amber gives: views in different directories have different
\* addresses.
C36_DistinctDirectories ==
  \A p, q \in apps :
    SubSeq(p.path, 1, Len(p.path) - 1) # SubSeq(q.path, 1, Len(q.path) - 1)
      => UriOf(p.path) # UriOf(q.path)

\* a/page.tsx and a/page.jsx are both registered, and both decorators have
\* registered a resource at ui://a
C36_Witness ==
  /\ {p.path : p \in apps} = {<<"apps", "a", "page.tsx">>, <<"apps", "a", "page.jsx">>}
  /\ mcp_resources = << <<"ui://", "a">>, <<"ui://", "a">> >>
  /\ reg_err = "none"

\* -------------------------------------------- claims on starts that fail
\* C32: a start that does not reach readiness, because the production
\* pipeline raised or because the wrapped lifespan failed to start after
\* _start_dev, leaves no worker thread, no open loop and no unfinished task.
\* runner.run at core.py:243-245 and the entry of the wrapped lifespan at 247
\* are outside the try whose finally stops the runner, so this does not hold.
C32_FailedStartLeavesNothing ==
  lpc = "failed" =>
    /\ rThread = 0
    /\ rLoop = 0
    /\ live = {}
    /\ \A k \in DOMAIN tasks : Finished(k)

\* What core.Amber gives: only a lifespan that reached readiness and exited
\* leaves nothing behind.
C32_ExitLeavesNothing ==
  lpc = "exited" =>
    /\ rThread = 0
    /\ rLoop = 0
    /\ live = {}
    /\ \A k \in DOMAIN tasks : Finished(k)

\* the wrapped lifespan failed to start in development: the worker is alive
\* and the bundle task and a watch task of that start are still running
C32_Witness ==
  /\ lpc = "failed"
  /\ dev
  /\ lerr = <<"original", 0>>
  /\ rThread # 0
  /\ rThread \in live
  /\ bundle_task # None
  /\ ~Finished(bundle_task)
  /\ \E k \in watcher_tasks : ~Finished(k)

\* the production pipeline raised: the task is over, the worker is alive
ProductionFailedWorkerAlive ==
  /\ lpc = "failed"
  /\ ~dev
  /\ lerr # <<"original", 0>>
  /\ rThread \in live
  /\ rLoop # 0
  /\ \A k \in DOMAIN tasks : Finished(k)

\* ----------------------------------------------- claims on the Ship factory
ShipOver == lpc \in {"returned", "raised"}

BundleCalls(k) == SelectSeq(tasks[k].log, LAMBDA e : e.ph = "call")

\* C31: when the factory of a Ship has returned or raised, the bundler was
\* invoked exactly once by this call if a page is registered, in a single
\* pass (dev false) and with minify = not dev, and not at all if no page is
\* registered; and the worker thread and its loop are gone, whether the build
\* returned (the factory returns) or raised (the factory raises).
C31_ShipBuildsOnceAndStops ==
  LET k == Key(starts, 0) IN
  ShipOver =>
    /\ rThread = 0
    /\ rLoop = 0
    /\ live = {}
    /\ IF apps = {}
         THEN /\ k \notin DOMAIN tasks
              /\ lpc = "returned"
         ELSE /\ k \in DOMAIN tasks
              /\ BundleCalls(k) = <<[op |-> "bundle", who |-> 0, dev |-> FALSE,
                                     minify |-> ~dev, ph |-> "call"]>>
              /\ (lpc = "raised") = (tasks[k].st = "failed")
              /\ (lpc = "returned") = (tasks[k].st = "done")

\* a development call whose build raised has left the factory
C31_Witness ==
  /\ lpc = "raised"
  /\ dev
  /\ apps # {}
  /\ tasks[Key(starts, 0)].st = "failed"
  /\ starts = 2


\* ------------------------------------------- claims on changes of .css files
\* the watch takes file f, as it is on the disk, for one it has processed
TakenForProcessed(f) == css[f].mtime # 0 /\ watch.known[f] = css[f].mtime

\* C38: no change of a .css file is lost by the watch: a file the watch takes
\* for processed never holds a text somebody else wrote, whenever that text
\* was written, the time between the rewriting of a processing and the
\* recording of the modification time included.
C38_NoChangeLost ==
  \A f \in CssFiles : TakenForProcessed(f) => css[f].text = "compiled"

\* x.css was written, processed once, and written again by somebody else
\* before the modification time was recorded; the pass after that one is
\* over, the watch waits, takes the file for processed, and the file holds
\* the text that was written
C38_Witness ==
  /\ watch.pc = "wait"
  /\ watch.passes = 2
  /\ watch.processed["x.css"] = 1
  /\ css["x.css"].writes = 2
  /\ css["x.css"].text = "source"
  /\ TakenForProcessed("x.css")

\* a text written while no processing of the file is under way is not lost:
\* the watch does not take the file for processed
C38_QuietChangeSeen ==
  [][\A f \in CssFiles :
       (CssWrite(f) /\ ~(watch.cur = f /\ watch.pc \in {"process", "subprocess", "write", "record"}))
         => ~TakenForProcessed(f)']_vars


\* --------------------------------------- claims on the Amber of amber.py
Sleeping == {r \in Readers : rd[r].pc = "sleep"}

\* C39: the bundler is started at most once for an Amber, however many reads
\* there were and however they overlap, and only with a UI path registered:
\* the one future kept is that of the one call, made with a set of paths that
\* is not empty.
C39_BundlerStartedOnce ==
  /\ starts <= 1
  /\ (starts = 0) = (bundle_task = None)
  /\ bundle_task # None => bundle_task.paths # {}
  /\ apps = {} => starts = 0

\* three reads were made, two of them still wait for the script, and the
\* bundler was started
C39_Witness ==
  /\ Cardinality(Sleeping) = 2
  /\ \A r \in Readers : rd[r].pc # "idle"
  /\ starts = 1

\* C40: every read of the legacy Amber ends: a read that waits for the
\* script of its view returns or fails later, also when the one run of the
\* bundler has failed or has ended without the script of the view.
C40_ReadsEnd ==
  \A r \in Readers : (rd[r].pc = "sleep") ~> (rd[r].pc = "done")

\* the bundler has failed, the script of view "a" was never written, and a
\* read of view "a" sleeps and tests again for ever
C40_Witness ==
  /\ bundle_task # None
  /\ bundle_task.st = "failed"
  /\ ~disk["a"].js
  /\ \E r \in Readers : rd[r].pc = "sleep" /\ rd[r].view = "a"

\* the run of the bundler has ended with a result, and a read of a view that
\* was registered after the bundler had been started still waits
RegisteredTooLate ==
  /\ bundle_task # None
  /\ bundle_task.st = "done"
  /\ \E r \in Readers :
       /\ rd[r].pc = "sleep"
       /\ rd[r].view \notin bundle_task.paths
       /\ ~disk[rd[r].view].js

\* a read that waits ends once the script of its view is written
C40_ReadsEndWithScript ==
  \A r \in Readers : (rd[r].pc = "sleep" /\ disk[rd[r].view].js) ~> (rd[r].pc = "done")

\* a read that waits has no way out but the script: as long as the script of
\* its view is not there, it waits
C40_WaitsWithoutScript ==
  [][\A r \in Readers :
       (rd[r].pc = "sleep" /\ ~disk'[rd[r].view].js) => rd'[r].pc = "sleep"]_vars


====
